---- MODULE Spec2Model ----
(***************************************************************************)
(* Model of the IDA instance discovery, IPC client, launcher and the       *)
(* open-link dispatch of hcli (src/hcli/lib/ida/ipc.py,                    *)
(* src/hcli/lib/ida/launcher.py, src/hcli/commands/open_link.py).          *)
(*                                                                         *)
(* Strings are sequences of one-character (or one-token) strings so that   *)
(* int(), str.lower(), str.replace() and os.path.basename() are computed   *)
(* rather than assumed.                                                    *)
(***************************************************************************)
EXTENDS Integers, Sequences, FiniteSets, TLC

(***************************************************************************)
(* Bounds of the model                                                     *)
(***************************************************************************)
\* process ids 1..MaxPid exist in the process table
MaxPid == 1
\* at most this many endpoint files exist in /tmp at the start
MaxFiles == 2
\* discovery runs performed one after the other in SpecDiscover
MaxRuns == 2
\* environment steps (process exit / start) interleaved with discovery
MaxEnv == 1

(***************************************************************************)
(* Strings                                                                 *)
(***************************************************************************)
\* Python None; an optional record r is <<>> or <<r>>, an absent string is <<>>
None == <<>>
ValueError == -1

SOCKET_PREFIX == "ida_ipc_"
TmpDir == "/tmp/"
PipeDir == "\\\\.\\pipe\\"

Digits == <<"0", "1", "2", "3", "4", "5", "6", "7", "8", "9">>

IsDigit(c) == \E i \in 1..10 : Digits[i] = c

DigitVal(c) == (CHOOSE i \in 1..10 : Digits[i] = c) - 1

Range(s) == {s[i] : i \in 1..Len(s)}

RECURSIVE ParseDigits(_, _)
ParseDigits(s, acc) ==
    IF s = <<>> THEN acc
    ELSE ParseDigits(Tail(s), acc * 10 + DigitVal(Head(s)))

\* int(pid_str): the decimal value of a non-empty digit string, ValueError otherwise
ParseInt(s) ==
    IF s # <<>> /\ \A i \in 1..Len(s) : IsDigit(s[i])
    THEN ParseDigits(s, 0)
    ELSE ValueError

RECURSIVE FormatInt(_)
\* f"{pid}": canonical decimal digits of a natural number
FormatInt(n) ==
    IF n < 10 THEN <<Digits[n + 1]>>
    ELSE FormatInt(n \div 10) \o <<Digits[(n % 10) + 1]>>

\* os.path.basename: drop the leading directory token
Basename(path) ==
    IF path # <<>> /\ Head(path) \in {TmpDir, PipeDir} THEN Tail(path) ELSE path

\* str.replace(tok, ""): remove every occurrence of the token
Replace(s, tok) == SelectSeq(s, LAMBDA c : c # tok)

\* _discover_unix: int(basename.replace(SOCKET_PREFIX, ""))
PidOfSock(path) == ParseInt(Replace(Basename(path), SOCKET_PREFIX))

\* query_instance: the pid re-parsed from the endpoint path
PidOfPath(path) ==
    ParseInt(Replace(Replace(Basename(path), PipeDir), SOCKET_PREFIX))

UnixPath(tail) == <<TmpDir, SOCKET_PREFIX>> \o tail
PipePath(pid) == <<PipeDir, SOCKET_PREFIX>> \o FormatInt(pid)

\* the tails of the endpoint names /tmp/ida_ipc_<tail> that may exist
TailUniverse == {<<"1">>, <<"2">>, <<"0", "1">>, <<"x">>}

Pids == 1..MaxPid

Perms(S) ==
    {s \in [1..Cardinality(S) -> S] : \A i, j \in 1..Cardinality(S) : i # j => s[i] # s[j]}

VARIABLES
    platform,   \* sys.platform
    files,      \* endpoint objects that exist: paths of socket files / named pipes
    locked,     \* socket files of other users in a sticky /tmp: os.unlink raises OSError
    procs,      \* process table: pid -> "alive" | "noperm" | "dead"
    dpc,        \* position of the discovery run
    todo,       \* candidates still to be processed by the discovery loop
    cur,        \* the stale candidate about to be unlinked
    instances,  \* the list the discovery run is building
    returned,   \* the list returned by the last finished discovery run
    runs,       \* history: one record per finished discovery run
    liveSeen,   \* history: paths whose owner was running when its liveness was checked
    removed,    \* history: files unlinked by the running discovery run
    before,     \* history: files and process table when the run started, paths denied
    envSteps    \* number of environment steps taken

    ,
    serv,       \* what the server of each process answers to get_info
    opc,        \* position of the open-link command (dispatch)
    d,          \* locals of the open-link command
    sent,       \* open_link commands sent so far: <<socket_path, accepted>>
    lpc,        \* position of launch_and_wait
    l,          \* arguments, configuration and locals of launch_and_wait
    child,      \* the process spawned by launch_and_wait
    now,        \* time.monotonic(), in units of 1/1280 s
    result,     \* the LaunchResult returned by launch_and_wait
    mlog,       \* history: the answers seen at the last workspace-name matching site
    hist        \* history: counters and flags of the run, status of the last probe

    ,
    x,          \* one request/response exchange and the call of the wrapper around it
    w,          \* one run of a polling helper of the launcher
    fcall,      \* one call of find_idb_file
    reg         \* the instance registry of the configuration (ida.instances, ida.default)

envvars == <<platform, files, locked, procs>>

discvars == <<dpc, todo, cur, instances, returned, runs, liveSeen, removed, before, envSteps>>

lvars == <<serv, opc, d, sent, lpc, l, child, now, result, mlog, hist>>

xvars == <<x, w, fcall, reg>>

vars == <<envvars, discvars, lvars, xvars>>

(***************************************************************************)
(* Process table                                                           *)
(***************************************************************************)
ProcStatus(pid) == IF pid \in DOMAIN procs THEN procs[pid] ELSE "dead"

\* os.kill(pid, 0)
KillOutcome(pid) ==
    CASE ProcStatus(pid) = "alive" -> "ok"
      [] ProcStatus(pid) = "noperm" -> "PermissionError"
      [] OTHER -> "ProcessLookupError"

\* OpenProcess(PROCESS_QUERY_LIMITED_INFORMATION, ...) yields a handle
OpenProcessOutcome(pid) == ProcStatus(pid) = "alive"

IsProcessAliveUnchecked(pid) == TRUE

IsProcessAliveOrDenied(pid) ==
    IF platform = "win32" THEN OpenProcessOutcome(pid)
    ELSE KillOutcome(pid) \in {"ok", "PermissionError"}

IsProcessAlive(pid) ==
    IF platform = "win32" THEN OpenProcessOutcome(pid)
    ELSE KillOutcome(pid) = "ok"

Running(pid) == ProcStatus(pid) \in {"alive", "noperm"}

IDAInstance(pid, path) ==
    [pid |-> pid, socket_path |-> path, idb_path |-> None, idb_name |-> None,
     has_idb |-> FALSE]

(***************************************************************************)
(* IDAIPCClient.discover_instances                                         *)
(***************************************************************************)
UnixEndpoints == {UnixPath(t) : t \in TailUniverse}

\* glob.glob("/tmp/ida_ipc_*"): the matching files, in any order
Glob == Perms(files)

\* EnumProcesses: the ids of the running processes, the idle process 0 first
RECURSIVE RunningFrom(_)
RunningFrom(pid) ==
    IF pid \notin DOMAIN procs THEN <<>>
    ELSE (IF Running(pid) THEN <<pid>> ELSE <<>>) \o RunningFrom(pid + 1)

EnumProcesses == <<0>> \o RunningFrom(1)

\* os.unlink(path) succeeds; otherwise it raises OSError, which is swallowed
UnlinkOk(path) == path \in files /\ path \notin locked

DiscoverStart ==
    /\ dpc \in {"idle", "done"}
    /\ Len(runs) < MaxRuns
    /\ IF platform = "win32"
       THEN todo' = EnumProcesses
       ELSE \E order \in Glob : todo' = order
    /\ dpc' = "loop"
    /\ instances' = <<>>
    /\ cur' = None
    /\ liveSeen' = {}
    /\ removed' = {}
    /\ before' = [files |-> files, procs |-> procs, env |-> envSteps, rival |-> {},
                 raced |-> FALSE, denied |-> {}]
    /\ UNCHANGED <<platform, files, locked, procs, returned, runs, envSteps>>
    /\ UNCHANGED lvars
    /\ UNCHANGED xvars

\* one iteration of the loop of _discover_unix up to the liveness decision
DiscoverCheckUnix ==
    /\ dpc = "loop"
    /\ platform # "win32"
    /\ Len(todo) > 0
    /\ LET sock_path == Head(todo)
           pid == PidOfSock(sock_path)
       IN  IF pid = ValueError
           THEN /\ todo' = Tail(todo)
                /\ UNCHANGED <<dpc, cur, instances, liveSeen, before>>
           ELSE /\ liveSeen' = IF Running(pid) THEN liveSeen \cup {sock_path} ELSE liveSeen
                /\ before' = IF KillOutcome(pid) = "PermissionError"
                             THEN [before EXCEPT !.denied = @ \cup {sock_path}]
                             ELSE before
                /\ IF IsProcessAlive(pid)
                   THEN /\ instances' = Append(instances, IDAInstance(pid, sock_path))
                        /\ todo' = Tail(todo)
                        /\ UNCHANGED <<dpc, cur>>
                   ELSE /\ dpc' = "unlink"
                        /\ cur' = sock_path
                        /\ UNCHANGED <<todo, instances>>
    /\ UNCHANGED <<platform, files, locked, procs, returned, runs, removed, envSteps>>
    /\ UNCHANGED lvars
    /\ UNCHANGED xvars

UnlinkFailedRaises == "raise"

\* except OSError: pass
UnlinkFailed == "pass"

\* the clean-up of a stale socket: os.unlink, OSError ignored
DiscoverUnlink ==
    /\ dpc = "unlink"
    /\ IF UnlinkOk(cur)
       THEN /\ files' = files \ {cur}
            /\ removed' = removed \cup {cur}
       ELSE UNCHANGED <<files, removed>>
    /\ before' = [before EXCEPT !.raced = @ \/ cur \notin files]
    /\ IF UnlinkOk(cur) \/ UnlinkFailed = "pass"
       THEN /\ todo' = Tail(todo)
            /\ dpc' = "loop"
       ELSE /\ dpc' = "raised"
            /\ UNCHANGED todo
    /\ cur' = None
    /\ UNCHANGED <<platform, locked, procs, instances, returned, runs, liveSeen, envSteps>>
    /\ UNCHANGED lvars
    /\ UNCHANGED xvars

\* one iteration of the loop of _discover_windows
DiscoverCheckWindows ==
    /\ dpc = "loop"
    /\ platform = "win32"
    /\ Len(todo) > 0
    /\ LET pid == Head(todo)
           pipe_name == PipePath(pid)
       IN  IF pid = 0
           THEN UNCHANGED <<instances, liveSeen>>
           ELSE IF pipe_name \in files
                THEN /\ instances' = Append(instances, IDAInstance(pid, pipe_name))
                     /\ liveSeen' = IF Running(pid) THEN liveSeen \cup {pipe_name} ELSE liveSeen
                ELSE UNCHANGED <<instances, liveSeen>>
    /\ todo' = Tail(todo)
    /\ UNCHANGED <<platform, files, locked, procs, dpc, cur, returned, runs, removed, before, envSteps>>
    /\ UNCHANGED lvars
    /\ UNCHANGED xvars

DiscoverReturn ==
    /\ dpc = "loop"
    /\ Len(todo) = 0
    /\ dpc' = "done"
    /\ returned' = instances
    /\ runs' = Append(runs, [returned |-> instances, removed |-> removed,
                             liveSeen |-> liveSeen, before |-> before,
                             filesAfter |-> files,
                             static |-> before.env = envSteps /\ before.rival = {},
                             quiet |-> before.env = envSteps])
    /\ UNCHANGED <<platform, files, locked, procs, todo, cur, instances, liveSeen,
                   removed, before, envSteps>>
    /\ UNCHANGED lvars
    /\ UNCHANGED xvars

(***************************************************************************)
(* Environment of a discovery run                                          *)
(***************************************************************************)
EndpointOf(pid) == IF platform = "win32" THEN PipePath(pid) ELSE UnixPath(FormatInt(pid))

\* a running process exits; a named pipe vanishes with it, a socket file stays
ProcExit ==
    /\ envSteps < MaxEnv
    /\ dpc \in {"loop", "unlink"}
    /\ \E pid \in Pids :
         /\ Running(pid)
         /\ procs' = [procs EXCEPT ![pid] = "dead"]
         /\ files' = IF platform = "win32" THEN files \ {PipePath(pid)} ELSE files
    /\ envSteps' = envSteps + 1
    /\ UNCHANGED <<platform, locked, dpc, todo, cur, instances, returned, runs,
                   liveSeen, removed, before>>
    /\ UNCHANGED lvars
    /\ UNCHANGED xvars

\* a new instance starts under a free pid and creates its endpoint
ProcStart ==
    /\ envSteps < MaxEnv
    /\ dpc \in {"loop", "unlink"}
    /\ \E pid \in Pids :
         /\ ~Running(pid)
         /\ procs' = [procs EXCEPT ![pid] = "alive"]
         /\ files' = files \cup {EndpointOf(pid)}
         /\ locked' = locked \ {EndpointOf(pid)}
    /\ envSteps' = envSteps + 1
    /\ UNCHANGED <<platform, dpc, todo, cur, instances, returned, runs,
                   liveSeen, removed, before>>
    /\ UNCHANGED lvars
    /\ UNCHANGED xvars

\* another process (a second discovery run) removes a stale socket file
RivalUnlink ==
    /\ dpc \in {"loop", "unlink"}
    /\ platform # "win32"
    /\ \E f \in files \ locked :
         /\ PidOfSock(f) # ValueError
         /\ ~Running(PidOfSock(f))
         /\ files' = files \ {f}
         /\ before' = [before EXCEPT !.rival = @ \cup {f}]
    /\ UNCHANGED <<platform, locked, procs, dpc, todo, cur, instances, returned, runs,
                   liveSeen, removed, envSteps>>
    /\ UNCHANGED lvars
    /\ UNCHANGED xvars

\* sys.platform.  "linux" is left out: the code treats it as "darwin" with an
\* IDA binary outside an app bundle
Platforms == {"darwin", "win32"}

ProcStates == {"alive", "noperm", "dead"}

InitDiscover ==
    /\ platform \in Platforms
    /\ procs \in [Pids -> ProcStates]
    /\ IF platform = "win32"
       THEN /\ files \in SUBSET {PipePath(p) : p \in {q \in Pids : procs[q] # "dead"}}
            /\ locked = {}
       ELSE /\ files \in {F \in SUBSET UnixEndpoints : Cardinality(F) <= MaxFiles}
            /\ \E sticky \in BOOLEAN :
                 locked = IF sticky
                          THEN {f \in files : ProcStatus(PidOfSock(f)) = "noperm"}
                          ELSE {}
    /\ dpc = "idle"
    /\ todo = <<>>
    /\ cur = None
    /\ instances = <<>>
    /\ returned = <<>>
    /\ runs = <<>>
    /\ liveSeen = {}
    /\ removed = {}
    /\ before = [files |-> {}, procs |-> procs, env |-> 0, rival |-> {}, raced |-> FALSE,
                denied |-> {}]
    /\ envSteps = 0
    /\ serv = <<>>
    /\ opc = "off"
    /\ d = None
    /\ sent = <<>>
    /\ lpc = "off"
    /\ l = None
    /\ child = None
    /\ now = 0
    /\ result = None
    /\ mlog = None
    /\ hist = None
    /\ x = None
    /\ w = None
    /\ fcall = None
    /\ reg = None

NextDiscover ==
    \/ DiscoverStart
    \/ DiscoverCheckUnix
    \/ DiscoverUnlink
    \/ DiscoverCheckWindows
    \/ DiscoverReturn
    \/ ProcExit
    \/ ProcStart
    \/ RivalUnlink

SpecDiscover == InitDiscover /\ [][NextDiscover]_vars

(***************************************************************************)
(* Workspace names and the get_info answers of the instances               *)
(***************************************************************************)
\* pre-existing instances have the pids 1..MaxInst; a launched one gets the next pid
MaxInst == 2

InstPids == 1..MaxInst

ChildPid == MaxInst + 1

LowerChar(c) ==
    CASE c = "S" -> "s"
      [] c = "A" -> "a"
      [] c = "B" -> "b"
      [] OTHER -> c

\* str.lower()
Lower(s) == [i \in 1..Len(s) |-> LowerChar(s[i])]

NameB == <<"b", ".idb">>
NameSample == <<"S", "ample.idb">>
NameSampleLower == <<"s", "ample.idb">>

ServedNames == {NameB, NameSample}

NameAnyIdb == <<"*", ".idb">>

TargetNames == {NameB, NameSampleLower, NameAnyIdb}

PathOf(name) == <<"/work/">> \o name

\* a get_info answer; has_idb is <<>> when the answer does not carry the key

InfoResponse(status, has_idb, idb_name, idb_path) ==
    [status |-> status, has_idb |-> has_idb, idb_name |-> idb_name, idb_path |-> idb_path]

\* what a running instance answers: no workspace, or a loaded workspace; an
\* endpoint nobody listens on gives no answer (the exchange raises IDAIPCError)
NoAnswer == InfoResponse("IDAIPCError", None, None, None)

Answers ==
    {InfoResponse("ok", <<FALSE>>, None, None)}
    \cup {InfoResponse("ok", <<TRUE>>, n, PathOf(n)) : n \in ServedNames}

\* the process listening on an endpoint path, 0 when nobody listens
ListenerOf(path) ==
    IF path \in files /\ \E pid \in DOMAIN procs : Running(pid) /\ EndpointOf(pid) = path
    THEN CHOOSE pid \in DOMAIN procs : Running(pid) /\ EndpointOf(pid) = path
    ELSE 0

\* _send_command(socket_path, {"cmd": "get_info"}): the answer, or IDAIPCError
SendGetInfo(path) ==
    LET pid == ListenerOf(path)
    IN  IF pid = 0 THEN NoAnswer ELSE serv[pid]

\* dict.get(key, default)
Get(v, default) == IF v = <<>> THEN default ELSE v[1]

\* bool(x) of a string or None
Truthy(str) == str # None

QueryInstance(socket_path) ==
    LET response == SendGetInfo(socket_path)
    IN  IF response.status = "IDAIPCError" THEN None
        ELSE IF response.status = "ok"
             THEN IF PidOfPath(socket_path) = ValueError THEN None
                  ELSE <<[pid |-> PidOfPath(socket_path),
                          socket_path |-> socket_path,
                          idb_path |-> response.idb_path,
                          idb_name |-> response.idb_name,
                          has_idb |-> Get(response.has_idb, FALSE)]>>
             ELSE None

\* the name test of the open-link command
MatchOpenLink(info, target_idb_name) ==
    /\ info # None
    /\ info[1].has_idb
    /\ Truthy(info[1].idb_name)
    /\ Lower(info[1].idb_name) = Lower(target_idb_name)

\* the name test of find_instance_for_idb
MatchFind(info, idb_name) ==
    /\ info # None
    /\ info[1].has_idb
    /\ Truthy(info[1].idb_name)
    /\ Lower(info[1].idb_name) = Lower(idb_name)

MatchWaitExact(info, idb_name) ==
    /\ info # None
    /\ info[1].has_idb
    /\ Truthy(info[1].idb_name)
    /\ info[1].idb_name = idb_name

\* the name test of _wait_for_idb_instance
MatchWait(info, idb_name) ==
    /\ info # None
    /\ info[1].has_idb
    /\ Truthy(info[1].idb_name)
    /\ Lower(info[1].idb_name) = Lower(idb_name)

(***************************************************************************)
(* discover_instances as one call                                          *)
(***************************************************************************)
RECURSIVE DiscoverUnix(_, _, _)
DiscoverUnix(order, fs, acc) ==
    IF order = <<>> THEN [instances |-> acc, files |-> fs]
    ELSE LET sock_path == Head(order)
             pid == PidOfSock(sock_path)
         IN  IF pid = ValueError THEN DiscoverUnix(Tail(order), fs, acc)
             ELSE IF IsProcessAlive(pid)
                  THEN DiscoverUnix(Tail(order), fs, Append(acc, IDAInstance(pid, sock_path)))
                  ELSE DiscoverUnix(Tail(order),
                                    IF UnlinkOk(sock_path) THEN fs \ {sock_path} ELSE fs,
                                    acc)

RECURSIVE DiscoverWindows(_, _)
DiscoverWindows(pids, acc) ==
    IF pids = <<>> THEN [instances |-> acc, files |-> files]
    ELSE LET pid == Head(pids)
         IN  IF pid # 0 /\ PipePath(pid) \in files
             THEN DiscoverWindows(Tail(pids), Append(acc, IDAInstance(pid, PipePath(pid))))
             ELSE DiscoverWindows(Tail(pids), acc)

\* the orders in which one call may enumerate its candidates
Enumerations == IF platform = "win32" THEN {EnumProcesses} ELSE Glob

DiscoverInstances(order) ==
    IF platform = "win32" THEN DiscoverWindows(order, <<>>)
    ELSE DiscoverUnix(order, files, <<>>)

\* query_instance of every discovered instance, in order
Infos(insts) == [i \in 1..Len(insts) |-> QueryInstance(insts[i].socket_path)]

\* history record of one matching site: the answers it went through, what it
\* looked for and what it picked.  Without a hit the order of the answers does
\* not matter and the record lists them in one fixed order.
MatchLog(site, order, target, hit) ==
    LET infos == Infos(DiscoverInstances(order).instances)
        fixed == Infos(DiscoverInstances(CHOOSE o \in Enumerations : TRUE).instances)
    IN  <<[site |-> site, target |-> target,
           infos |-> IF hit = 0 THEN fixed ELSE infos,
           picked |-> IF hit = 0 THEN None ELSE infos[hit]]>>

\* the loop "for instance in instances: ... break / return": index of the first hit
LastOpenLink(infos, target) ==
    IF \E i \in 1..Len(infos) : MatchOpenLink(infos[i], target)
    THEN CHOOSE i \in 1..Len(infos) :
           /\ MatchOpenLink(infos[i], target)
           /\ \A j \in (i + 1)..Len(infos) : ~MatchOpenLink(infos[j], target)
    ELSE 0

FirstOpenLink(infos, target) ==
    IF \E i \in 1..Len(infos) : MatchOpenLink(infos[i], target)
    THEN CHOOSE i \in 1..Len(infos) :
           /\ MatchOpenLink(infos[i], target)
           /\ \A j \in 1..(i - 1) : ~MatchOpenLink(infos[j], target)
    ELSE 0

FirstFind(infos, target) ==
    IF \E i \in 1..Len(infos) : MatchFind(infos[i], target)
    THEN CHOOSE i \in 1..Len(infos) :
           /\ MatchFind(infos[i], target)
           /\ \A j \in 1..(i - 1) : ~MatchFind(infos[j], target)
    ELSE 0

FirstWait(infos, target) ==
    IF \E i \in 1..Len(infos) : MatchWait(infos[i], target)
    THEN CHOOSE i \in 1..Len(infos) :
           /\ MatchWait(infos[i], target)
           /\ \A j \in 1..(i - 1) : ~MatchWait(infos[j], target)
    ELSE 0

(***************************************************************************)
(* LaunchConfig, LaunchResult and the messages of the launcher             *)
(* Durations are in units of 1/1280 s: 0.1 s = 128, so that the backoff    *)
(* sequence 0.1 * 1.5^n is exact up to the cap.                            *)
(***************************************************************************)
Min(a, b) == IF a <= b THEN a ELSE b

Seconds(n) == n * 1280

\* the defaults of the LaunchConfig dataclass
DefaultConfig ==
    [socket_timeout |-> Seconds(30),
     idb_loaded_timeout |-> Seconds(90),
     initial_poll_interval |-> 128,
     max_poll_interval |-> Seconds(2),
     backoff_num |-> 3,
     backoff_den |-> 2,
     skip_analysis_wait |-> FALSE,
     analysis_poll_interval |-> Seconds(5)]

\* LaunchConfig(socket_timeout=min(30.0, timeout * 0.25),
\*              idb_loaded_timeout=min(90.0, timeout * 0.75), skip_analysis_wait=...)
DispatchConfig(timeout, skip_analysis) ==
    [DefaultConfig EXCEPT !.socket_timeout = Min(Seconds(30), timeout \div 4),
                          !.idb_loaded_timeout = Min(Seconds(90), (timeout * 3) \div 4),
                          !.skip_analysis_wait = skip_analysis]

NextIntervalUncapped(interval, config) ==
    (interval * config.backoff_num) \div config.backoff_den

\* interval = min(interval * backoff_multiplier, max_poll_interval)
NextInterval(interval, config) ==
    IF interval * config.backoff_num >= config.max_poll_interval * config.backoff_den
    THEN config.max_poll_interval
    ELSE (interval * config.backoff_num) \div config.backoff_den

LaunchResult(success, instance, process, error_message) ==
    [success |-> success, instance |-> instance, process |-> process,
     error_message |-> error_message]

\* str(IDAStartupTimeout(timeout, phase))
StartupTimeoutMsg(timeout, phase) ==
    <<"IDA startup timeout after ">> \o FormatInt(timeout) \o <<"s during ", phase>>

\* str(IDALaunchError(f"IDA exited unexpectedly with code {exit_code}", exit_code))
ExitedMsg(exit_code) == <<"IDA exited unexpectedly with code ">> \o FormatInt(exit_code)

AnalysisErrorMsg(message) == <<"Analysis check error: ", message>>

(***************************************************************************)
(* find_idb_file and get_ida_binary                                        *)
(***************************************************************************)
Entry(name, is_file) == [name |-> name, is_file |-> is_file]

Root(exists, entries) == [exists |-> exists, entries |-> entries]

\* idb.search-paths with the directory trees behind them; the entries of a
\* root are listed in the order rglob walks them
SearchFixtures ==
    {<<>>,
     <<Root(FALSE, <<Entry(NameB, TRUE)>>), Root(TRUE, <<Entry(NameB, TRUE)>>)>>,
     <<Root(TRUE, <<Entry(NameSample, FALSE), Entry(NameSample, TRUE)>>),
       Root(TRUE, <<Entry(NameSampleLower, TRUE)>>)>>}

\* one character of an rglob pattern against one character of a file name
TokMatch(pt, nt) ==
    \/ pt = "*"
    \/ IF platform = "win32" THEN LowerChar(pt) = LowerChar(nt) ELSE pt = nt

GlobMatch(pattern, name) ==
    /\ Len(pattern) = Len(name)
    /\ \A i \in 1..Len(pattern) : TokMatch(pattern[i], name[i])

FirstEntry(entries, idb_filename) ==
    LET hits == {i \in 1..Len(entries) : GlobMatch(idb_filename, entries[i].name)}
    IN  IF hits = {} THEN 0 ELSE CHOOSE i \in hits : \A j \in hits : i <= j

\* for idb_path in dir_path_obj.rglob(idb_filename): if idb_path.is_file(): return
FirstFile(entries, idb_filename) ==
    LET hits == {i \in 1..Len(entries) :
                    GlobMatch(idb_filename, entries[i].name) /\ entries[i].is_file}
    IN  IF hits = {} THEN 0 ELSE CHOOSE i \in hits : \A j \in hits : i <= j

RECURSIVE FindFrom(_, _, _)
FindFrom(search_paths, k, idb_filename) ==
    IF k > Len(search_paths) THEN None
    ELSE IF ~search_paths[k].exists THEN FindFrom(search_paths, k + 1, idb_filename)
    ELSE IF FirstFile(search_paths[k].entries, idb_filename) = 0
         THEN FindFrom(search_paths, k + 1, idb_filename)
         ELSE <<[root |-> k,
                 name |-> search_paths[k].entries[FirstFile(search_paths[k].entries,
                                                            idb_filename)].name,
                 kind |-> "file"]>>

FindIdbFile(search_paths, idb_filename) ==
    IF search_paths = <<>> THEN None ELSE FindFrom(search_paths, 1, idb_filename)

AppBundleBin == <<"/Applications/IDA.app", "/Contents/MacOS/", "ida">>
PlainBin == <<"/opt/ida", "/", "ida">>

\* the installation state get_ida_binary reads: the binary of the configured
\* default instance and the binary of the discovered installation
IdaEnvs ==
    {[configured |-> c, discovered |-> g] :
        c \in {None, AppBundleBin}, g \in {None, PlainBin}}

GetIdaBinary(env) ==
    IF env.configured # None THEN env.configured
    ELSE IF env.discovered # None THEN env.discovered
    ELSE <<"NoIDAInstallationError">>

NoIdaMsg == <<"No IDA installation configured. Use: hcli ida instance add --auto">>

\* whether launch_and_wait starts IDA through "open -a" instead of directly
UsesOpen(ida_bin) == platform = "darwin" /\ "/Contents/MacOS/" \in Range(ida_bin)

(***************************************************************************)
(* IDALauncher.launch_and_wait                                             *)
(***************************************************************************)
\* analysis probes sent by one launch before the model stops following it
MaxProbes == 2

ExitCodes == {3}

\* timeout arguments of a direct call: None or 0.1 s
DirectTimeouts == {None, <<128>>}

\* configurations of a direct call: short budgets, analysis wait on or off
DirectConfigs ==
    {[DefaultConfig EXCEPT !.socket_timeout = 64, !.idb_loaded_timeout = 192,
                           !.skip_analysis_wait = b] : b \in BOOLEAN}

\* data-file arguments of a direct call
DirectIdbPaths ==
    {[root |-> 0, name |-> NameSampleLower, kind |-> k] : k \in {"file", "dir", "missing"}}

FailSilent(error_message) == <<LaunchResult(FALSE, None, None, None)>>

\* return LaunchResult(success=False, error_message=...)
Fail(error_message) == <<LaunchResult(FALSE, None, None, error_message)>>

ReadyUnqueried(instance) ==
    <<LaunchResult(TRUE, <<IDAInstance(instance[1].pid, instance[1].socket_path)>>,
                   None, None)>>

\* "IDA is ready!": return LaunchResult(success=True, instance=instance)
Ready(instance) == <<LaunchResult(TRUE, instance, None, None)>>

AnalysisCancelledFails(instance) == Fail(<<"Analysis wait cancelled by user">>)

\* except KeyboardInterrupt: report("Analysis wait cancelled by user"), then ready
AnalysisCancelled(instance) == Ready(instance)

\* total_timeout = timeout if timeout is not None else socket + idb_loaded
TotalTimeout(timeout, config) ==
    IF timeout # None THEN timeout[1]
    ELSE config.socket_timeout + config.idb_loaded_timeout

NewChild(kind) ==
    <<[kind |-> kind, pid |-> ChildPid, state |-> "starting", exit_code |-> None,
       responsive |-> FALSE, exitedWaiting |-> FALSE]>>

AfterSpawnProbes == "analysis"

\* what follows a successful Popen: the call of _wait_for_idb_instance
AfterSpawn == "wait_idb"

AfterMatchAlwaysWaits(skip_analysis_wait) == "analysis"

\* if not self.config.skip_analysis_wait: wait for the analysis, else ready
AfterMatch(skip_analysis_wait) == IF skip_analysis_wait THEN "done" ELSE "analysis"

ProbeStepLenient(r) == IF r.success THEN "ready" ELSE "sleep"

\* what one iteration of the analysis loop does with a probe result
ProbeStep(r) ==
    IF r.success THEN "ready"
    ELSE IF r.status = "error" THEN "raise"
    ELSE "sleep"

\* a direct call of launch_and_wait(idb_path, timeout) on a launcher with a config
LaunchCall ==
    /\ opc = "idle"
    /\ lpc = "idle"
    /\ \E idb_path \in DirectIdbPaths, timeout \in DirectTimeouts, config \in DirectConfigs :
         l' = [idb_path |-> idb_path, timeout |-> timeout, config |-> config,
               total_timeout |-> 0, start |-> 0, interval |-> 0, instance |-> None]
    /\ opc' = "direct"
    /\ lpc' = "start"
    /\ hist' = [hist EXCEPT !.launches = @ + 1]
    /\ UNCHANGED <<envvars, discvars, serv, d, sent, child, now, result, mlog>>
    /\ UNCHANGED xvars

ValidateNothing(idb_path) == "ok"

\* if not idb_path.exists(): ...; if not idb_path.is_file(): ...
Validate(idb_path) ==
    IF idb_path.kind = "missing" THEN "missing"
    ELSE IF idb_path.kind # "file" THEN "not a file"
    ELSE "ok"

\* validation of the data file, get_ida_binary, subprocess.Popen
LaunchSpawn ==
    /\ lpc = "start"
    /\ \E env \in IdaEnvs, popen_ok \in BOOLEAN :
         LET ida_bin == GetIdaBinary(env)
         IN  IF Validate(l.idb_path) = "missing"
             THEN /\ result' = Fail(<<"IDB file not found: ">> \o l.idb_path.name)
                  /\ lpc' = "done"
                  /\ UNCHANGED <<l, child, procs, hist>>
             ELSE IF Validate(l.idb_path) = "not a file"
             THEN /\ result' = Fail(<<"IDB path is not a file: ">> \o l.idb_path.name)
                  /\ lpc' = "done"
                  /\ UNCHANGED <<l, child, procs, hist>>
             ELSE IF ida_bin = <<"NoIDAInstallationError">>
             THEN /\ result' = Fail(NoIdaMsg)
                  /\ lpc' = "done"
                  /\ UNCHANGED <<l, child, procs, hist>>
             ELSE IF ~popen_ok
             THEN /\ result' = Fail(<<"Failed to start IDA: ", "OSError">>)
                  /\ lpc' = "done"
                  /\ UNCHANGED <<l, child, procs, hist>>
             ELSE /\ child' = NewChild(IF UsesOpen(ida_bin) THEN "open" ELSE "direct")
                  /\ procs' = [procs EXCEPT ![ChildPid] = "alive"]
                  /\ hist' = [hist EXCEPT !.spawns = @ + 1]
                  /\ l' = [l EXCEPT !.total_timeout = TotalTimeout(l.timeout, l.config),
                                    !.start = now,
                                    !.interval = l.config.initial_poll_interval]
                  /\ lpc' = AfterSpawn
                  /\ UNCHANGED result
    /\ UNCHANGED <<platform, files, locked, discvars, serv, opc, d, sent, now, mlog>>
    /\ UNCHANGED xvars

\* one iteration of the loop of _wait_for_idb_instance, or its timeout
WaitForIdbInstance ==
    /\ lpc = "wait_idb"
    /\ IF now - l.start < l.total_timeout
       THEN \E order \in Enumerations :
              LET found == DiscoverInstances(order)
                  infos == Infos(found.instances)
                  hit == FirstWait(infos, l.idb_path.name)
              IN  /\ files' = found.files
                  /\ mlog' = MatchLog("wait", order, l.idb_path.name, hit)
                  /\ IF hit # 0
                     THEN /\ l' = [l EXCEPT !.instance = infos[hit]]
                          /\ lpc' = "matched"
                          /\ UNCHANGED now
                     ELSE /\ now' = now + l.interval
                          /\ l' = [l EXCEPT !.interval = NextInterval(l.interval, l.config)]
                          /\ UNCHANGED lpc
                  /\ UNCHANGED result
       ELSE /\ result' = Fail(StartupTimeoutMsg(l.total_timeout, "waiting for IDB instance"))
            /\ lpc' = "done"
            /\ UNCHANGED <<files, mlog, l, now>>
    /\ UNCHANGED <<platform, locked, procs, discvars, serv, opc, d, sent, child, hist>>
    /\ UNCHANGED xvars

\* after the workspace wait: skip the analysis wait or enter it
LaunchMatched ==
    /\ lpc = "matched"
    /\ IF AfterMatch(l.config.skip_analysis_wait) = "done"
       THEN /\ result' = Ready(l.instance)
            /\ lpc' = "done"
       ELSE /\ lpc' = "analysis"
            /\ UNCHANGED result
    /\ UNCHANGED <<envvars, discvars, serv, opc, d, sent, l, child, now, mlog, hist>>
    /\ UNCHANGED xvars

\* the answers of IDAIPCClient.is_analysis_complete
ProbeResults ==
    {[success |-> TRUE, status |-> "ok", message |-> "done"],
     [success |-> FALSE, status |-> "timeout", message |-> "running"],
     [success |-> FALSE, status |-> "cancelled", message |-> "cancelled"],
     [success |-> FALSE, status |-> "error", message |-> "failed"]}

\* one iteration of the loop of _wait_for_analysis_on_instance
AnalysisProbe ==
    /\ lpc = "analysis"
    /\ hist.probes < MaxProbes
    /\ \E r \in ProbeResults :
         /\ hist' = [hist EXCEPT !.probes = @ + 1, !.last = r.status]
         /\ IF ProbeStep(r) = "ready"
            THEN /\ result' = Ready(l.instance)
                 /\ lpc' = "done"
                 /\ UNCHANGED now
            ELSE IF ProbeStep(r) = "raise"
            THEN /\ result' = Fail(AnalysisErrorMsg(r.message))
                 /\ lpc' = "done"
                 /\ UNCHANGED now
            ELSE /\ now' = now + l.config.analysis_poll_interval
                 /\ UNCHANGED <<result, lpc>>
    /\ UNCHANGED <<envvars, discvars, serv, opc, d, sent, l, child, mlog>>
    /\ UNCHANGED xvars

\* Ctrl+C while _wait_for_analysis_on_instance runs: caught by launch_and_wait
AnalysisInterrupt ==
    /\ lpc = "analysis"
    /\ result' = AnalysisCancelled(l.instance)
    /\ lpc' = "done"
    /\ hist' = [hist EXCEPT !.interrupted = "analysis"]
    /\ UNCHANGED <<envvars, discvars, serv, opc, d, sent, l, child, now, mlog>>
    /\ UNCHANGED xvars

\* Ctrl+C while _wait_for_idb_instance polls: KeyboardInterrupt leaves
\* launch_and_wait and its caller
StartupInterrupt ==
    /\ lpc = "wait_idb"
    /\ hist' = [hist EXCEPT !.interrupted = lpc]
    /\ lpc' = "raised"
    /\ opc' = "done"
    /\ d' = IF d = None THEN d ELSE <<[d[1] EXCEPT !.outcome = "KeyboardInterrupt"]>>
    /\ UNCHANGED <<envvars, discvars, serv, sent, l, child, now, result, mlog>>
    /\ UNCHANGED xvars

(***************************************************************************)
(* The launched process                                                    *)
(***************************************************************************)
Waiting == lpc = "wait_idb" /\ now - l.start < l.total_timeout

\* the launched instance creates its endpoint and answers ping and get_info
ChildServe ==
    /\ lpc \in {"wait_idb"}
    /\ child # None
    /\ child[1].state = "starting"
    /\ child' = <<[child[1] EXCEPT !.state = "serving", !.responsive = TRUE]>>
    /\ files' = files \cup {EndpointOf(ChildPid)}
    /\ locked' = locked \ {EndpointOf(ChildPid)}
    /\ serv' = [serv EXCEPT ![ChildPid] = InfoResponse("ok", <<FALSE>>, None, None)]
    /\ UNCHANGED <<platform, procs, discvars, opc, d, sent, lpc, l, now, result, mlog, hist>>
    /\ UNCHANGED xvars

\* the launched instance has loaded the data file it was started with
ChildLoad ==
    /\ lpc \in {"wait_idb"}
    /\ child # None
    /\ child[1].state = "serving"
    /\ child' = <<[child[1] EXCEPT !.state = "loaded"]>>
    /\ serv' = [serv EXCEPT ![ChildPid] =
                  InfoResponse("ok", <<TRUE>>, l.idb_path.name, PathOf(l.idb_path.name))]
    /\ UNCHANGED <<envvars, discvars, opc, d, sent, lpc, l, now, result, mlog, hist>>
    /\ UNCHANGED xvars

\* the launched process exits with a code
ChildExit ==
    /\ lpc \in {"wait_idb", "analysis"}
    /\ child # None
    /\ child[1].state # "exited"
    /\ \E c \in ExitCodes :
         child' = <<[child[1] EXCEPT !.state = "exited", !.exit_code = <<c>>,
                                     !.exitedWaiting = Waiting]>>
    /\ procs' = [procs EXCEPT ![ChildPid] = "dead"]
    /\ files' = IF platform = "win32" THEN files \ {PipePath(ChildPid)} ELSE files
    /\ UNCHANGED <<platform, locked, discvars, serv, opc, d, sent, lpc, l, now, result,
                   mlog, hist>>
    /\ UNCHANGED xvars

(***************************************************************************)
(* The open-link command (dispatch) and find_instance_for_idb              *)
(***************************************************************************)
PathTok == "/functions?ea=0x401000"

Uri(scheme, netloc) == <<scheme, "://">> \o netloc \o <<PathTok>>

\* urlparse(uri).scheme
UrlScheme(uri) == IF Len(uri) >= 2 /\ uri[2] = "://" THEN uri[1] ELSE ""

\* urlparse(uri).netloc: what stands between "://" and the next "/"
Netloc(uri) ==
    IF Len(uri) >= 2 /\ uri[2] = "://"
    THEN SelectSeq(SubSeq(uri, 3, Len(uri)), LAMBDA c : c # PathTok)
    ELSE <<>>

Uris ==
    {Uri("idb", n) : n \in TargetNames \cup {<<>>}} \cup {Uri("ida", NameB), <<>>}

\* --timeout values given to the command: 0.2 s, and 0
DispatchTimeouts == {256, 0}

\* all_idbs: the names of the instances with a workspace seen up to the hit
\* (read only by the --no-launch report, dropped once that point is passed)
AllIdbs(infos, hit) ==
    LET upto == IF hit = 0 THEN Len(infos) ELSE hit
        withIdb == SelectSeq(SubSeq(infos, 1, upto), LAMBDA i : i # None /\ i[1].has_idb)
    IN  [k \in 1..Len(withIdb) |-> withIdb[k][1].idb_name]

Command(uri, no_launch, timeout, skip_analysis) ==
    [uri |-> uri, no_launch |-> no_launch, timeout |-> timeout,
     skip_analysis |-> skip_analysis, target |-> None, all_idbs |-> <<>>,
     matching_instance |-> None, outcome |-> "", reason |-> "", report |-> None]

Abort(cmd, reason) == <<[cmd EXCEPT !.outcome = "Abort", !.reason = reason]>>

AfterQueryIgnoresHit(hit, no_launch, idb_path) ==
    IF no_launch THEN (IF hit # 0 THEN "send" ELSE "no instance")
    ELSE IF idb_path = None THEN "idb not found"
    ELSE "launch"

AfterQueryNoFlag(hit, no_launch, idb_path) ==
    IF hit # 0 THEN "send"
    ELSE IF idb_path = None THEN "idb not found"
    ELSE "launch"

\* what open_link does once the query loop is over: send to the matching
\* instance, give up (--no-launch, or no data file found), or launch
AfterQuery(hit, no_launch, idb_path) ==
    IF hit # 0 THEN "send"
    ELSE IF no_launch THEN "no instance"
    ELSE IF idb_path = None THEN "idb not found"
    ELSE "launch"

\* open_link up to the point where it either has a matching instance, has
\* given up, or has called launch_and_wait
OpenLinkStart ==
    /\ opc = "idle"
    /\ lpc = "idle"
    /\ \E uri \in Uris, no_launch \in BOOLEAN, skip_analysis \in BOOLEAN,
          timeout \in DispatchTimeouts, search_paths \in SearchFixtures,
          order \in Enumerations :
         LET cmd == Command(uri, no_launch, timeout, skip_analysis)
             target_idb_name == Netloc(uri)
             found == DiscoverInstances(order)
             infos == Infos(found.instances)
             hit == FirstOpenLink(infos, target_idb_name)
             seen == [cmd EXCEPT !.target = target_idb_name,
                                 !.all_idbs = AllIdbs(infos, hit)]
             idb_path == FindIdbFile(search_paths, target_idb_name)
         IN  IF uri = <<>>
             THEN /\ d' = Abort(cmd, "no uri")
                  /\ opc' = "done"
                  /\ UNCHANGED <<files, mlog, lpc, l, hist>>
             ELSE IF UrlScheme(uri) # "idb"
             THEN /\ d' = Abort(cmd, "not idb")
                  /\ opc' = "done"
                  /\ UNCHANGED <<files, mlog, lpc, l, hist>>
             ELSE IF target_idb_name = <<>>
             THEN /\ d' = Abort(cmd, "no idb name")
                  /\ opc' = "done"
                  /\ UNCHANGED <<files, mlog, lpc, l, hist>>
             ELSE /\ files' = found.files
                  /\ mlog' = MatchLog("open_link", order, target_idb_name, hit)
                  /\ IF AfterQuery(hit, no_launch, idb_path) = "send"
                     THEN /\ d' = <<[seen EXCEPT !.matching_instance = infos[hit],
                                                 !.all_idbs = <<>>]>>
                          /\ opc' = "send"
                          /\ UNCHANGED <<lpc, l, hist>>
                     ELSE IF AfterQuery(hit, no_launch, idb_path) = "no instance"
                     THEN /\ d' = Abort(seen, "no instance")
                          /\ opc' = "done"
                          /\ UNCHANGED <<lpc, l, hist>>
                     ELSE IF AfterQuery(hit, no_launch, idb_path) = "idb not found"
                     THEN /\ d' = Abort([seen EXCEPT !.all_idbs = <<>>], "idb not found")
                          /\ opc' = "done"
                          /\ UNCHANGED <<lpc, l, hist>>
                     ELSE /\ d' = <<[seen EXCEPT !.all_idbs = <<>>]>>
                          /\ opc' = "launching"
                          /\ lpc' = "start"
                          /\ l' = [idb_path |-> idb_path[1], timeout |-> <<timeout>>,
                                   config |-> DispatchConfig(timeout, skip_analysis),
                                   total_timeout |-> 0, start |-> 0, interval |-> 0,
                                   instance |-> None]
                          /\ hist' = [hist EXCEPT !.launches = @ + 1]
    /\ UNCHANGED <<platform, locked, procs, discvars, serv, sent, child, now, result>>
    /\ UNCHANGED xvars

\* what send_open_link may come back with for an endpoint
SendOutcomes(socket_path) ==
    IF ListenerOf(socket_path) = 0 THEN {"IDAIPCError"} ELSE {"ok", "error"}

\* send_open_link to the matching instance and the final report
SendOpenLink(cmd, matching_instance) ==
    \E status \in SendOutcomes(matching_instance[1].socket_path) :
        /\ sent' = Append(sent, [socket_path |-> matching_instance[1].socket_path,
                                 uri |-> cmd.uri, status |-> status])
        /\ d' = IF status = "ok"
                THEN <<[cmd EXCEPT !.matching_instance = matching_instance,
                                   !.outcome = "ok"]>>
                ELSE Abort([cmd EXCEPT !.matching_instance = matching_instance],
                           "send failed")

LaunchFailedReportBare(launch_result) == <<"Failed to launch IDA: ">>

\* console.print(f"[red]Failed to launch IDA: {result.error_message}[/red]")
LaunchFailedReport(launch_result) ==
    <<"Failed to launch IDA: ">> \o launch_result.error_message

\* open_link after launch_and_wait has returned: give up, or send to the
\* launched instance
OpenLinkLaunched ==
    /\ opc = "launching"
    /\ lpc = "done"
    /\ IF ~result[1].success \/ result[1].instance = None
       THEN /\ d' = Abort([d[1] EXCEPT !.report = LaunchFailedReport(result[1])],
                          "launch failed")
            /\ UNCHANGED sent
       ELSE SendOpenLink(d[1], result[1].instance)
    /\ opc' = "done"
    /\ UNCHANGED <<envvars, discvars, serv, lpc, l, child, now, result, mlog, hist>>
    /\ UNCHANGED xvars

\* open_link with an instance found among the running ones: send to it
OpenLinkSend ==
    /\ opc = "send"
    /\ SendOpenLink(d[1], d[1].matching_instance)
    /\ opc' = "done"
    /\ UNCHANGED <<envvars, discvars, serv, lpc, l, child, now, result, mlog, hist>>
    /\ UNCHANGED xvars

\* a call of find_instance_for_idb(idb_name)
FindInstanceForIdb ==
    /\ opc = "idle"
    /\ lpc = "idle"
    /\ \E idb_name \in TargetNames, order \in Enumerations :
         LET found == DiscoverInstances(order)
             infos == Infos(found.instances)
             hit == FirstFind(infos, idb_name)
         IN  /\ files' = found.files
             /\ mlog' = MatchLog("find", order, idb_name, hit)
    /\ opc' = "done"
    /\ UNCHANGED <<platform, locked, procs, discvars, serv, d, sent, lpc, l, child, now,
                   result, hist>>
    /\ UNCHANGED xvars

(***************************************************************************)
(* Initial states and specification of dispatch and launch                 *)
(***************************************************************************)
\* what stands behind a pre-existing pid: nothing, a stale socket file, or an
\* instance with one of the answers
InstKind(kind, answer) == [kind |-> kind, answer |-> answer]

InstKinds ==
    {InstKind(k, NoAnswer) : k \in {"absent", "stale"}}
    \cup {InstKind("serving", a) : a \in Answers}

\* a fixed order of InstKinds
KindRank(k) ==
    IF k.kind = "absent" THEN 0
    ELSE IF k.kind = "stale" THEN 1
    ELSE IF ~k.answer.has_idb[1] THEN 2
    ELSE IF k.answer.idb_name = NameB THEN 3
    ELSE 4

\* glob returns the socket files in any order, so on posix the assignment of
\* kinds to the pre-existing pids is taken up to renaming of the pids; the
\* process table of win32 is walked in pid order, so there every assignment
\* is kept
UpToRenaming(kinds) ==
    platform # "win32" =>
        \A p, q \in InstPids : p < q => KindRank(kinds[p]) <= KindRank(kinds[q])

Init ==
    /\ platform \in Platforms
    /\ \E kinds \in [InstPids -> InstKinds] :
         /\ platform = "win32" => \A p \in InstPids : kinds[p].kind # "stale"
         /\ UpToRenaming(kinds)
         /\ procs = [p \in 1..ChildPid |->
                       IF p = ChildPid THEN "dead"
                       ELSE IF kinds[p].kind = "serving" THEN "alive"
                       ELSE "dead"]
         /\ files = {EndpointOf(p) : p \in {q \in InstPids : kinds[q].kind # "absent"}}
         /\ serv = [p \in 1..ChildPid |->
                      IF p # ChildPid THEN kinds[p].answer ELSE NoAnswer]
    /\ locked = {}
    /\ dpc = "off"
    /\ todo = <<>>
    /\ cur = None
    /\ instances = <<>>
    /\ returned = <<>>
    /\ runs = <<>>
    /\ liveSeen = {}
    /\ removed = {}
    /\ before = [files |-> {}, procs |-> <<>>, env |-> 0, rival |-> {}, raced |-> FALSE,
                denied |-> {}]
    /\ envSteps = 0
    /\ opc = "idle"
    /\ d = None
    /\ sent = <<>>
    /\ lpc = "idle"
    /\ l = None
    /\ child = None
    /\ now = 0
    /\ result = None
    /\ mlog = None
    /\ hist = [launches |-> 0, spawns |-> 0, probes |-> 0, last |-> "", interrupted |-> ""]
    /\ x = None
    /\ w = None
    /\ fcall = None
    /\ reg = None

Next ==
    \/ OpenLinkStart
    \/ OpenLinkLaunched
    \/ OpenLinkSend
    \/ FindInstanceForIdb
    \/ LaunchCall
    \/ LaunchSpawn
    \/ WaitForIdbInstance
    \/ LaunchMatched
    \/ AnalysisProbe
    \/ AnalysisInterrupt
    \/ StartupInterrupt
    \/ ChildServe
    \/ ChildLoad
    \/ ChildExit

Spec == Init /\ [][Next]_vars

(***************************************************************************)
(* One request/response exchange (_send_command) and the calls around it   *)
(* A response is a sequence of tokens, each a run of bytes; C3 and A9 are  *)
(* the two bytes of one UTF-8 character.                                   *)
(***************************************************************************)
C3 == "\\xc3"
A9 == "\\xa9"

MemberToks ==
    {"status:ok", "status:error", "message:caf", "has_idb:true", "has_idb:false",
     "idb_name:b.idb", "idb_path:/work/b.idb"}

\* bytes.decode("utf-8") succeeds
DecodeOk(buf) ==
    \A i \in 1..Len(buf) :
       /\ buf[i] = C3 => (i < Len(buf) /\ buf[i + 1] = A9)
       /\ buf[i] = A9 => (i > 1 /\ buf[i - 1] = C3)

IsObject(buf) ==
    /\ Len(buf) >= 2
    /\ buf[1] = "{"
    /\ buf[Len(buf)] = "}"
    /\ \A i \in 2..(Len(buf) - 1) : buf[i] \in MemberToks \cup {C3, A9}

IsArray(buf) == buf = <<"[", "]">>

IsNumber(buf) == Len(buf) >= 1 /\ \A i \in 1..Len(buf) : IsDigit(buf[i])

\* a parsed JSON value; the fields of an object are <<>> when the key is absent
Value(kind, status, message, has_idb, idb_name, idb_path, number) ==
    [kind |-> kind, status |-> status, message |-> message, has_idb |-> has_idb,
     idb_name |-> idb_name, idb_path |-> idb_path, number |-> number]

NoValue == Value("none", None, None, None, None, None, 0)

Dict(buf) ==
    LET has(t) == t \in Range(buf)
    IN  Value("dict",
              IF has("status:ok") THEN <<"ok">>
              ELSE IF has("status:error") THEN <<"error">> ELSE None,
              IF has("message:caf") THEN <<"caf">> ELSE None,
              IF has("has_idb:true") THEN <<TRUE>>
              ELSE IF has("has_idb:false") THEN <<FALSE>> ELSE None,
              IF has("idb_name:b.idb") THEN NameB ELSE None,
              IF has("idb_path:/work/b.idb") THEN PathOf(NameB) ELSE None,
              0)

\* what _send_command hands back: a value, or the class of the exception raised
Outcome(raised, value) == [raised |-> raised, value |-> value]

\* json.loads(response_data.decode("utf-8"))
Loads(buf) ==
    IF ~DecodeOk(buf) THEN Outcome("UnicodeDecodeError", NoValue)
    ELSE IF IsObject(buf) THEN Outcome("", Dict(buf))
    ELSE IF IsArray(buf) THEN Outcome("", Value("list", None, None, None, None, None, 0))
    ELSE IF IsNumber(buf)
         THEN Outcome("", Value("int", None, None, None, None, None, ParseDigits(buf, 0)))
    ELSE Outcome("JSONDecodeError", NoValue)

\* the exception classes involved and their base classes
Parent(cls) ==
    CASE cls \in {"IPCConnectionError", "IPCTimeoutError", "IPCProtocolError"} -> "IDAIPCError"
      [] cls \in {"BrokenPipeError", "ConnectionResetError"} -> "OSError"
      [] cls \in {"UnicodeDecodeError", "JSONDecodeError"} -> "ValueError"
      [] cls \in {"IDAIPCError", "OSError", "ValueError", "AttributeError"} -> "Exception"
      [] OTHER -> "BaseException"

RECURSIVE IsSubclass(_, _)
IsSubclass(cls, base) ==
    \/ cls = base
    \/ cls # "BaseException" /\ IsSubclass(Parent(cls), base)

\* what the peer sends in answer to one command, before it ends the exchange
Docs ==
    {<<>>,
     <<"{", "status:ok", "}">>,
     <<"{", "status:ok">>,
     <<"{", "status:error", "message:caf", C3, A9, "}">>,
     <<"{", "status:error", "message:caf", C3>>,
     <<"{", "has_idb:true", "}">>,
     <<"[", "]">>,
     <<"1", "2">>,
     <<"{", "status:ok", "has_idb:true", "idb_name:b.idb", "idb_path:/work/b.idb", "}">>,
     <<"{", "status:ok", "has_idb:false", "}">>,
     <<"{", "status:ok", "has_idb:true", "}">>,
     <<"{", "status:ok", "has_idb:false", "idb_name:b.idb", "}">>}

\* how the peer ends: it closes, it stays silent, or the connection is reset
Endings == {"close", "silent", "reset"}

Commands == {"ping", "get_info", "open_link"}

\* the endpoint paths a call is made with
CallPaths ==
    {EndpointOf(1),
     IF platform = "win32" THEN <<PipeDir, SOCKET_PREFIX, "x">> ELSE UnixPath(<<"x">>)}

\* the call after try: response = _send_command(...) has returned or raised
Api(raised, success, message, instance) ==
    [raised |-> raised, success |-> success, message |-> message, instance |-> instance]

NoApi == Api("", FALSE, None, None)

\* response.get(...) on a value that is not a dict raises AttributeError
Got(out) ==
    IF out.raised = "" /\ out.value.kind # "dict"
    THEN Outcome("AttributeError", NoValue)
    ELSE out

PingHandlerNarrow == "IDAIPCError"

\* ping: except Exception: return False
PingHandler == "Exception"

ping(out) ==
    LET r == Got(out)
    IN  IF r.raised = "" THEN Api("", r.value.status = <<"ok">>, None, None)
        ELSE IF IsSubclass(r.raised, PingHandler) THEN Api("", FALSE, None, None)
        ELSE Api(r.raised, FALSE, None, None)

\* send_open_link: except IDAIPCError, then except Exception
send_open_link(out) ==
    LET r == Got(out)
    IN  IF r.raised = ""
        THEN IF r.value.status = <<"ok">> THEN Api("", TRUE, <<"OK">>, None)
             ELSE Api("", FALSE,
                      IF r.value.message = None THEN <<"Unknown error">>
                      ELSE r.value.message, None)
        ELSE IF IsSubclass(r.raised, "IDAIPCError") THEN Api("", FALSE, <<r.raised>>, None)
        ELSE IF IsSubclass(r.raised, "Exception")
             THEN Api("", FALSE, <<"Unexpected error: ", r.raised>>, None)
        ELSE Api(r.raised, FALSE, None, None)

QueryStatusIgnored(value) == TRUE

\* if response.get("status") == "ok"
QueryStatusOk(value) == value.status = <<"ok">>

\* query_instance: an IDAInstance copied from the answer, or None
query_instance(socket_path, out) ==
    LET r == Got(out)
    IN  IF r.raised = ""
        THEN IF QueryStatusOk(r.value) /\ PidOfPath(socket_path) # ValueError
             THEN Api("", TRUE, None,
                      <<[pid |-> PidOfPath(socket_path),
                         socket_path |-> socket_path,
                         idb_path |-> r.value.idb_path,
                         idb_name |-> r.value.idb_name,
                         has_idb |-> Get(r.value.has_idb, FALSE)]>>)
             ELSE Api("", FALSE, None, None)
        ELSE IF IsSubclass(r.raised, "Exception") THEN Api("", FALSE, None, None)
        ELSE Api(r.raised, FALSE, None, None)

\* the behaviour of socket.connect / CreateFileW against the endpoint
ConnectOutcomes == IF platform = "win32" THEN {"ok", "refused"} ELSE {"ok", "timeout", "refused"}

FinishKeepsSocket(out, sock) ==
    [x EXCEPT !.pc = "exchanged", !.raised = out.raised, !.value = out.value]

\* the exchange ends: the value or exception goes to the caller, the finally
\* clause has closed the socket or handle that was connected
Finish(out, sock) ==
    [x EXCEPT !.pc = "exchanged", !.raised = out.raised, !.value = out.value, !.sock = sock]

\* socket.socket(); sock.connect(socket_path) under CONNECT_TIMEOUT.  When
\* connect raises, sock is not closed: it is left to the garbage collector
ConnectUnix ==
    /\ platform # "win32"
    /\ x # None
    /\ x.pc = "connect"
    /\ \E c \in ConnectOutcomes :
         x' = IF c = "ok"
              THEN [x EXCEPT !.pc = "send", !.sock = "open", !.connected = TRUE]
              ELSE IF c = "timeout"
              THEN [Finish(Outcome("IPCTimeoutError", NoValue), "dropped")
                      EXCEPT !.connectTimedOut = TRUE]
              ELSE Finish(Outcome("IPCConnectionError", NoValue), "dropped")
    /\ UNCHANGED <<envvars, discvars, lvars, w, fcall, reg>>

\* sock.sendall(data); the finally clause closes the socket when it raises
SendUnix ==
    /\ platform # "win32"
    /\ x # None
    /\ x.pc = "send"
    /\ \E ok \in BOOLEAN :
         x' = IF ok THEN [x EXCEPT !.pc = "recv", !.asked = TRUE]
              ELSE Finish(Outcome("BrokenPipeError", NoValue), "closed")
    /\ UNCHANGED <<envvars, discvars, lvars, w, fcall, reg>>

AfterLoopLenient(response_data) == Outcome("", Dict(<<"{", "}">>))

\* after the receive loop: no data, or data that never parsed
AfterLoop(response_data) ==
    IF response_data = <<>> THEN Outcome("IPCProtocolError", NoValue)
    ELSE IF Loads(response_data).raised = "JSONDecodeError"
         THEN Outcome("IPCProtocolError", NoValue)
         ELSE Loads(response_data)

\* one sock.recv(4096) of the receive loop under READ_TIMEOUT, with the parse
\* attempt after it; an empty chunk or socket.timeout leaves the loop
RecvUnix ==
    /\ platform # "win32"
    /\ x # None
    /\ x.pc = "recv"
    /\ IF x.got < Len(x.doc)
       THEN \E n \in 1..(Len(x.doc) - x.got) :
              LET response_data == x.response_data \o SubSeq(x.doc, x.got + 1, x.got + n)
                  r == Loads(response_data)
              IN  x' = IF r.raised = "JSONDecodeError"
                       THEN [x EXCEPT !.response_data = response_data, !.got = x.got + n]
                       ELSE [Finish(r, "closed")
                               EXCEPT !.response_data = response_data, !.got = x.got + n]
       ELSE x' = IF x.ending = "reset"
                 THEN Finish(Outcome("ConnectionResetError", NoValue), "closed")
                 ELSE [Finish(AfterLoop(x.response_data), "closed")
                         EXCEPT !.sawClose = (x.ending = "close"),
                                !.readTimedOut = (x.ending = "silent")]
    /\ UNCHANGED <<envvars, discvars, lvars, w, fcall, reg>>

\* CreateFileW(pipe_path, ...): handle == -1 raises IPCConnectionError
CreateFileWindows ==
    /\ platform = "win32"
    /\ x # None
    /\ x.pc = "connect"
    /\ \E c \in ConnectOutcomes :
         x' = IF c = "ok"
              THEN [x EXCEPT !.pc = "send", !.sock = "open", !.connected = TRUE]
              ELSE Finish(Outcome("IPCConnectionError", NoValue), "none")
    /\ UNCHANGED <<envvars, discvars, lvars, w, fcall, reg>>

\* WriteFile; the finally clause closes the handle when it fails
WriteFileWindows ==
    /\ platform = "win32"
    /\ x # None
    /\ x.pc = "send"
    /\ \E ok \in BOOLEAN :
         x' = IF ok THEN [x EXCEPT !.pc = "recv", !.asked = TRUE]
              ELSE Finish(Outcome("IPCConnectionError", NoValue), "closed")
    /\ UNCHANGED <<envvars, discvars, lvars, w, fcall, reg>>

\* the single ReadFile(handle, buffer, 4096, ...): it has no deadline, so it
\* does not return while the peer stays silent
ReadFileWindows ==
    /\ platform = "win32"
    /\ x # None
    /\ x.pc = "recv"
    /\ IF x.got < Len(x.doc)
       THEN \E n \in 1..(Len(x.doc) - x.got) :
              LET response_data == SubSeq(x.doc, x.got + 1, x.got + n)
                  r == Loads(response_data)
              IN  x' = [Finish(IF r.raised = "JSONDecodeError"
                               THEN Outcome("IPCProtocolError", NoValue)
                               ELSE r, "closed")
                          EXCEPT !.response_data = response_data, !.got = x.got + n]
       ELSE /\ x.ending # "silent"
            /\ x' = [Finish(Outcome("IPCProtocolError", NoValue), "closed")
                       EXCEPT !.sawClose = TRUE]
    /\ UNCHANGED <<envvars, discvars, lvars, w, fcall, reg>>

\* ping, send_open_link or query_instance returns what it makes of the exchange
ApiReturn ==
    /\ x # None
    /\ x.pc = "exchanged"
    /\ LET out == Outcome(x.raised, x.value)
       IN  x' = [x EXCEPT !.pc = "returned",
                          !.api = CASE x.cmd = "ping" -> ping(out)
                                    [] x.cmd = "open_link" -> send_open_link(out)
                                    [] OTHER -> query_instance(x.socket_path, out)]
    /\ UNCHANGED <<envvars, discvars, lvars, w, fcall, reg>>

\* one call of ping, send_open_link or query_instance on an endpoint whose
\* peer is given by what it sends and how it ends
InitIpc ==
    /\ platform \in Platforms
    /\ files = {}
    /\ locked = {}
    /\ procs = <<"alive">>
    /\ dpc = "off"
    /\ todo = <<>>
    /\ cur = None
    /\ instances = <<>>
    /\ returned = <<>>
    /\ runs = <<>>
    /\ liveSeen = {}
    /\ removed = {}
    /\ before = [files |-> {}, procs |-> <<>>, env |-> 0, rival |-> {}, raced |-> FALSE,
                denied |-> {}]
    /\ envSteps = 0
    /\ serv = <<>>
    /\ opc = "off"
    /\ d = None
    /\ sent = <<>>
    /\ lpc = "off"
    /\ l = None
    /\ child = None
    /\ now = 0
    /\ result = None
    /\ mlog = None
    /\ hist = None
    /\ w = None
    /\ fcall = None
    /\ reg = None
    /\ \E cmd \in Commands, socket_path \in CallPaths, doc \in Docs, ending \in Endings :
         x = [cmd |-> cmd, socket_path |-> socket_path, doc |-> doc, ending |-> ending,
              pc |-> "connect", sock |-> "none", connected |-> FALSE, asked |-> FALSE,
              response_data |-> <<>>, got |-> 0, raised |-> "", value |-> NoValue,
              api |-> NoApi, sawClose |-> FALSE, readTimedOut |-> FALSE,
              connectTimedOut |-> FALSE]

NextIpc ==
    \/ ConnectUnix
    \/ SendUnix
    \/ RecvUnix
    \/ CreateFileWindows
    \/ WriteFileWindows
    \/ ReadFileWindows
    \/ ApiReturn

SpecIpc == InitIpc /\ [][NextIpc]_vars

\* the calling thread keeps running: a step of the exchange that can be taken
\* (a call returns, a timeout fires) is taken
SpecIpcFair == InitIpc /\ [][NextIpc]_vars /\ WF_vars(NextIpc)

(***************************************************************************)
(* The polling helpers of the launcher, run on their own                   *)
(***************************************************************************)
WaitHelpers ==
    {"_wait_for_socket_responsive", "_wait_for_idb_loaded", "_wait_for_idb_instance"}

\* the phase named by the IDAStartupTimeout of a helper
PhaseOf(helper) ==
    CASE helper = "_wait_for_socket_responsive" -> "socket_responsive"
      [] helper = "_wait_for_idb_loaded" -> "idb_loaded"
      [] OTHER -> "waiting for IDB instance"

\* the helpers that are given the process handle check process.poll() first
HasProcess(helper) == helper # "_wait_for_idb_instance"

\* the default configuration, one with initial 0.5 s, multiplier 2, max 1 s,
\* and one with initial 3 s, multiplier 1.5, max 1 s
WaitConfigs ==
    {DefaultConfig,
     [DefaultConfig EXCEPT !.initial_poll_interval = 640, !.backoff_num = 2,
                           !.backoff_den = 1, !.max_poll_interval = Seconds(1)],
     [DefaultConfig EXCEPT !.initial_poll_interval = Seconds(3),
                           !.max_poll_interval = Seconds(1)]}

\* the timeout argument of a helper: 1 s, 8 s, 30 s
WaitTimeouts == {Seconds(1), Seconds(8), Seconds(30)}

\* --timeout values of a dispatch whose launch is followed to its end: the
\* short ones and 200 s
LaunchTimeouts == DispatchTimeouts \cup {Seconds(200)}

\* what one iteration finds before it sleeps
ProbeOutcomes(helper) ==
    {"not yet", "ready"} \cup (IF HasProcess(helper) THEN {"exited"} ELSE {})

\* one iteration of while time.monotonic() - start < timeout, or the raise
\* of IDAStartupTimeout after the loop
WaitLoop ==
    /\ w # None
    /\ w.pc = "loop"
    /\ IF now - w.start < w.timeout
       THEN \E p \in ProbeOutcomes(w.helper), c \in ExitCodes :
              IF p = "exited"
              THEN /\ w' = [w EXCEPT !.pc = "raised", !.outcome = ExitedMsg(c)]
                   /\ UNCHANGED now
              ELSE IF p = "ready"
              THEN /\ w' = [w EXCEPT !.pc = "returned"]
                   /\ UNCHANGED now
              ELSE /\ now' = now + w.interval
                   /\ w' = [w EXCEPT !.sleeps = Append(w.sleeps, w.interval),
                                     !.interval = NextInterval(w.interval, w.config)]
       ELSE /\ w' = [w EXCEPT !.pc = "raised",
                              !.outcome = StartupTimeoutMsg(w.timeout, PhaseOf(w.helper))]
            /\ UNCHANGED now
    /\ UNCHANGED <<envvars, discvars, serv, opc, d, sent, lpc, l, child, result, mlog,
                   hist, x, fcall, reg>>

\* a helper has been entered: start = time.monotonic(),
\* interval = self.config.initial_poll_interval
InitWait ==
    /\ platform \in Platforms
    /\ files = {}
    /\ locked = {}
    /\ procs = <<"alive">>
    /\ dpc = "off"
    /\ todo = <<>>
    /\ cur = None
    /\ instances = <<>>
    /\ returned = <<>>
    /\ runs = <<>>
    /\ liveSeen = {}
    /\ removed = {}
    /\ before = [files |-> {}, procs |-> <<>>, env |-> 0, rival |-> {}, raced |-> FALSE,
                denied |-> {}]
    /\ envSteps = 0
    /\ serv = <<>>
    /\ opc = "off"
    /\ d = None
    /\ sent = <<>>
    /\ lpc = "off"
    /\ l = None
    /\ child = None
    /\ now = 0
    /\ result = None
    /\ mlog = None
    /\ hist = None
    /\ x = None
    /\ fcall = None
    /\ reg = None
    /\ \/ \E helper \in WaitHelpers, config \in WaitConfigs, timeout \in WaitTimeouts :
            w = [helper |-> helper, config |-> config, timeout |-> timeout, start |-> now,
                 interval |-> config.initial_poll_interval, sleeps |-> <<>>,
                 pc |-> "loop", outcome |-> None, overall |-> None]
       \* the workspace wait of a launch made by open_link --timeout T
       \/ \E T \in LaunchTimeouts, skip_analysis \in BOOLEAN :
            LET config == DispatchConfig(T, skip_analysis)
            IN  w = [helper |-> "_wait_for_idb_instance", config |-> config,
                     timeout |-> TotalTimeout(<<T>>, config), start |-> now,
                     interval |-> config.initial_poll_interval, sleeps |-> <<>>,
                     pc |-> "loop", outcome |-> None, overall |-> <<T>>]

NextWait == WaitLoop

SpecWait == InitWait /\ [][NextWait]_vars

(***************************************************************************)
(* find_idb_file, called on its own                                        *)
(***************************************************************************)
\* what a search root may hold: files and directories with the sample names
EntrySamples ==
    {Entry(n, is_file) : n \in {NameB, NameSample, NameSampleLower}, is_file \in BOOLEAN}

\* the entries of a root in the order rglob walks them
Listings ==
    {<<>>} \cup {<<e>> : e \in EntrySamples}
           \cup {<<e1, e2>> : e1 \in EntrySamples, e2 \in EntrySamples}

\* a configured root: a directory that is missing, or one with a listing
RootSamples == {Root(FALSE, <<>>)} \cup {Root(TRUE, es) : es \in Listings}

\* idb.search-paths: not configured, one root, two roots
SearchTrees ==
    {<<>>} \cup {<<r>> : r \in RootSamples}
           \cup {<<r1, r2>> : r1 \in RootSamples, r2 \in RootSamples}

\* the names open_link passes: the netloc of an idb:// URL that has one
DispatchNames ==
    {Netloc(uri) : uri \in {u \in Uris : UrlScheme(u) = "idb" /\ Netloc(u) # <<>>}}

\* find_idb_file(idb_filename) returns
FindIdbFileReturn ==
    /\ fcall # None
    /\ fcall.pc = "called"
    /\ fcall' = [fcall EXCEPT !.pc = "returned",
                      !.value = FindIdbFile(fcall.search_paths, fcall.idb_filename)]
    /\ UNCHANGED <<envvars, discvars, lvars, x, w, reg>>

InitFind ==
    /\ platform \in Platforms
    /\ files = {}
    /\ locked = {}
    /\ procs = <<>>
    /\ dpc = "off"
    /\ todo = <<>>
    /\ cur = None
    /\ instances = <<>>
    /\ returned = <<>>
    /\ runs = <<>>
    /\ liveSeen = {}
    /\ removed = {}
    /\ before = [files |-> {}, procs |-> <<>>, env |-> 0, rival |-> {}, raced |-> FALSE,
                denied |-> {}]
    /\ envSteps = 0
    /\ serv = <<>>
    /\ opc = "off"
    /\ d = None
    /\ sent = <<>>
    /\ lpc = "off"
    /\ l = None
    /\ child = None
    /\ now = 0
    /\ result = None
    /\ mlog = None
    /\ hist = None
    /\ x = None
    /\ w = None
    /\ reg = None
    /\ \E search_paths \in SearchTrees, idb_filename \in DispatchNames :
         fcall = [search_paths |-> search_paths, idb_filename |-> idb_filename,
              pc |-> "called", value |-> None]

NextFind == FindIdbFileReturn

SpecFind == InitFind /\ [][NextFind]_vars

(***************************************************************************)
(* The instance registry: ida.instances and ida.default of the             *)
(* configuration, and the commands that write them, run one at a time      *)
(***************************************************************************)
\* an installation directory: the last component of its path, whether it is
\* a directory, and whether is_ida_dir accepts it
Installation(name, is_dir, ida_dir) == [name |-> name, is_dir |-> is_dir, ida_dir |-> ida_dir]

InstallApp == Installation(<<"IDA", " ", "Professional", ".app">>, TRUE, TRUE)
InstallPlain == Installation(<<"IDA", " ", "Professional">>, TRUE, TRUE)
InstallHome == Installation(<<"IDA", " ", "Home">>, TRUE, TRUE)
InstallBroken == Installation(<<"IDA", " ", "Free">>, TRUE, FALSE)
InstallFile == Installation(<<"IDA", " ", "Home">>, FALSE, FALSE)

\* what find_standard_installations may list
Installations == {InstallApp, InstallPlain, InstallHome, InstallBroken}

\* str(path.absolute())
AbsPath(inst) == <<"/Applications/">> \o inst.name

LowerWord(t) ==
    CASE t = "IDA" -> "ida"
      [] t = "Professional" -> "professional"
      [] t = "Home" -> "home"
      [] t = "Free" -> "free"
      [] OTHER -> t

\* generate_instance_name: drop a trailing ".app", lower-case, spaces to
\* dashes, "ida-professional" to "ida-pro"
GenerateInstanceName(path_name) ==
    LET stem == IF path_name # <<>> /\ path_name[Len(path_name)] = ".app"
                THEN SubSeq(path_name, 1, Len(path_name) - 1)
                ELSE path_name
        lowered == [i \in 1..Len(stem) |-> LowerWord(stem[i])]
        dashed == [i \in 1..Len(lowered) |-> IF lowered[i] = " " THEN "-" ELSE lowered[i]]
    IN  [i \in 1..Len(dashed) |->
           IF i >= 3 /\ dashed[i] = "professional" /\ dashed[i - 1] = "-"
              /\ dashed[i - 2] = "ida"
           THEN "pro"
           ELSE dashed[i]]

NameWork == <<"work">>
NameIdaPro == <<"ida", "-", "pro">>

\* the instance names of the model in the order sorted() puts them
NameOrder ==
    <<<<"ida", "-", "free">>, <<"ida", "-", "home">>, NameIdaPro, NameWork>>

Rank(name) == CHOOSE i \in 1..Len(NameOrder) : NameOrder[i] = name

\* sorted(names)[-1]
LastName(names) == CHOOSE n \in names : \A m \in names : Rank(m) <= Rank(n)

\* a dict with one more key, and with one key less
Put(dict, key, value) ==
    [k \in DOMAIN dict \cup {key} |-> IF k = key THEN value ELSE dict[k]]

Del(dict, key) == [k \in DOMAIN dict \ {key} |-> dict[k]]

EmptyDict == [k \in {} |-> None]

\* add_instance_to_config(name, path): the instances afterwards
AddInstanceToConfig(insts, name, inst) ==
    IF name \in DOMAIN insts THEN insts ELSE Put(insts, name, AbsPath(inst))

\* the registry after a command, with the command and how it ended
After(cmd, outcome, insts, default) ==
    [instances |-> insts, default |-> default, cmd |-> cmd, outcome |-> outcome,
     was |-> reg.default]

Same(cmd, outcome) == After(cmd, outcome, reg.instances, reg.default)

\* hcli ida instance add NAME PATH
AddManual ==
    /\ reg # None
    /\ \E name \in {None, NameWork, NameIdaPro},
          path \in {<<>>} \cup {<<i>> : i \in Installations \cup {InstallFile}} :
         reg' = IF name = None \/ path = <<>> THEN Same("add", "Abort")
                ELSE IF ~path[1].is_dir \/ ~path[1].ida_dir THEN Same("add", "Abort")
                ELSE After("add", "ok", AddInstanceToConfig(reg.instances, name, path[1]),
                           reg.default)
    /\ UNCHANGED <<envvars, discvars, lvars, x, w, fcall>>

\* the lists find_standard_installations returns
FoundLists ==
    {<<>>} \cup {<<i>> : i \in Installations}
           \cup {<<i, j>> : i \in Installations, j \in Installations}

ValidInstallations(found) == SelectSeq(found, LAMBDA i : i.ida_dir)

\* the sub-lists a checkbox prompt can hand back
RECURSIVE SubLists(_)
SubLists(choices) ==
    IF choices = <<>> THEN {<<>>}
    ELSE LET rest == SubLists(Tail(choices))
         IN  rest \cup {<<Head(choices)>> \o r : r \in rest}

\* for ... in selected: if add_instance_to_config(...): added.append(...)
RECURSIVE AddAll(_, _, _)
AddAll(insts, selected, added) ==
    IF selected = <<>> THEN [instances |-> insts, added |-> added]
    ELSE LET name == GenerateInstanceName(Head(selected).name)
         IN  IF name \in DOMAIN insts
             THEN AddAll(insts, Tail(selected), added)
             ELSE AddAll(AddInstanceToConfig(insts, name, Head(selected)), Tail(selected),
                         added \cup {name})

\* hcli ida instance add --auto
AddAuto ==
    /\ reg # None
    /\ \E raised \in BOOLEAN, found \in FoundLists :
         LET valid == ValidInstallations(found)
         IN  IF raised THEN reg' = Same("add --auto", "Abort")
             ELSE IF valid = <<>> THEN reg' = Same("add --auto", "ok")
             ELSE \E interrupted \in BOOLEAN, selected \in SubLists(valid) :
                    LET done == AddAll(reg.instances, selected, {})
                    IN  reg' = IF interrupted THEN Same("add --auto", "Abort")
                               ELSE IF selected = <<>> THEN Same("add --auto", "ok")
                               ELSE After("add --auto", "ok", done.instances,
                                          IF done.added # {} /\ reg.default = None
                                          THEN LastName(done.added)
                                          ELSE reg.default)
    /\ UNCHANGED <<envvars, discvars, lvars, x, w, fcall>>

DefaultAfterRemoveKept(name, default, remaining) == default

\* _remove_single_instance: the default after the instance name is deleted
DefaultAfterRemove(name, default, remaining) ==
    IF default = name
    THEN IF DOMAIN remaining # {} THEN LastName(DOMAIN remaining) ELSE None
    ELSE default

\* hcli ida instance remove [--all] [NAME]
Remove ==
    /\ reg # None
    /\ \E all \in BOOLEAN, name \in {None, NameWork, NameIdaPro, <<"ida", "-", "home">>} :
         reg' = IF (all /\ name # None) \/ (~all /\ name = None) THEN Same("remove", "Abort")
                ELSE IF DOMAIN reg.instances = {} THEN Same("remove", "ok")
                ELSE IF all THEN After("remove --all", "ok", EmptyDict, None)
                ELSE IF name \notin DOMAIN reg.instances THEN Same("remove", "Abort")
                ELSE After("remove", "ok", Del(reg.instances, name),
                           DefaultAfterRemove(name, reg.default, Del(reg.instances, name)))
    /\ UNCHANGED <<envvars, discvars, lvars, x, w, fcall>>

\* hcli ida instance set-default [NAME]; without NAME a prompt selects
Switch ==
    /\ reg # None
    /\ \E name \in {None, NameWork, NameIdaPro} :
         IF DOMAIN reg.instances = {} THEN reg' = Same("set-default", "Abort")
         ELSE IF name # None
         THEN reg' = IF name \notin DOMAIN reg.instances THEN Same("set-default", "Abort")
                     ELSE After("set-default", "ok", reg.instances, name)
         ELSE \E interrupted \in BOOLEAN, selected \in DOMAIN reg.instances \cup {None} :
                reg' = IF interrupted THEN Same("set-default", "Abort")
                       ELSE IF selected = None THEN Same("set-default", "ok")
                       ELSE After("set-default", "ok", reg.instances, selected)
    /\ UNCHANGED <<envvars, discvars, lvars, x, w, fcall>>

\* _check_and_setup_ida_instances, called by hcli ke setup
SetupRegister ==
    /\ reg # None
    /\ \E raised \in BOOLEAN, found \in FoundLists :
         LET valid == ValidInstallations(found)
             done == AddAll(reg.instances, valid, {})
             names == {GenerateInstanceName(valid[i].name) : i \in 1..Len(valid)}
         IN  reg' = IF DOMAIN reg.instances # {} THEN Same("setup", "ok")
                    ELSE IF raised \/ valid = <<>> THEN Same("setup", "ok")
                    ELSE After("setup", "ok", done.instances,
                               IF done.added # {} THEN LastName(names) ELSE reg.default)
    /\ UNCHANGED <<envvars, discvars, lvars, x, w, fcall>>

\* a configuration with no instance registered and no default
InitRegistry ==
    /\ platform \in Platforms
    /\ files = {}
    /\ locked = {}
    /\ procs = <<>>
    /\ dpc = "off"
    /\ todo = <<>>
    /\ cur = None
    /\ instances = <<>>
    /\ returned = <<>>
    /\ runs = <<>>
    /\ liveSeen = {}
    /\ removed = {}
    /\ before = [files |-> {}, procs |-> <<>>, env |-> 0, rival |-> {}, raced |-> FALSE,
                denied |-> {}]
    /\ envSteps = 0
    /\ serv = <<>>
    /\ opc = "off"
    /\ d = None
    /\ sent = <<>>
    /\ lpc = "off"
    /\ l = None
    /\ child = None
    /\ now = 0
    /\ result = None
    /\ mlog = None
    /\ hist = None
    /\ x = None
    /\ w = None
    /\ fcall = None
    /\ reg = [instances |-> EmptyDict, default |-> None, cmd |-> "", outcome |-> "",
              was |-> None]

NextRegistry ==
    \/ AddManual
    \/ AddAuto
    \/ Remove
    \/ Switch
    \/ SetupRegister

SpecRegistry == InitRegistry /\ [][NextRegistry]_vars

(***************************************************************************)
(* Properties                                                              *)
(***************************************************************************)
Launched == lpc = "done" /\ child # None

\* two names that differ at most in the case of their letters
CasePairs == {{"S", "s"}, {"A", "a"}, {"B", "b"}}

SameIgnoringCase(a, b) ==
    /\ Len(a) = Len(b)
    /\ \A i \in 1..Len(a) : a[i] = b[i] \/ {a[i], b[i]} \in CasePairs

\* the answer of a queried instance names the wanted workspace
Reports(info, target) ==
    /\ info # None
    /\ info[1].has_idb
    /\ info[1].idb_name # None
    /\ SameIgnoringCase(info[1].idb_name, target)

\* C1: when the spawned process exits with code c before its endpoint became
\* responsive, and while launch_and_wait was still waiting, the launch fails
\* with the LaunchError message that carries c, never with a startup timeout.
C1_ExitReportedWithCode ==
    (Launched /\ child[1].state = "exited" /\ ~child[1].responsive
       /\ child[1].exitedWaiting)
    => /\ ~result[1].success
       /\ result[1].error_message = ExitedMsg(child[1].exit_code[1])

\* C2: when the launched target never becomes responsive and nothing else is
\* found before the budget is spent, launch_and_wait fails with a startup
\* timeout whose phase tag is "socket_responsive".
C2_TimeoutTaggedSocketResponsive ==
    (Launched /\ child[1].state = "starting" /\ l.instance = None)
    => /\ ~result[1].success
       /\ Head(result[1].error_message) = "IDA startup timeout after "
       /\ "socket_responsive" \in Range(result[1].error_message)

\* C3: an interrupt in the analysis-wait phase ends the wait and the launch
\* returns success with the instance found by the workspace wait.
C3_InterruptInAnalysisIsSuccess ==
    hist.interrupted = "analysis"
    => /\ lpc = "done"
       /\ result # None
       /\ result[1].success
       /\ result[1].instance # None
       /\ mlog[1].site = "wait"
       /\ result[1].instance = mlog[1].picked

C3_Witness ==
    /\ hist.interrupted = "analysis"
    /\ hist.probes >= 1
    /\ result # None
    /\ result[1].success

\* C4: every LaunchResult has an instance iff it is a success and an error
\* message iff it is a failure.
C4_ResultShape ==
    result # None
    => /\ (result[1].instance # None) <=> result[1].success
       /\ (result[1].error_message # None) <=> ~result[1].success

C4_Witness ==
    /\ Launched
    /\ result # None
    /\ ~result[1].success
    /\ hist.probes >= 1

\* C5: a LaunchResult carries a process handle exactly when launch_and_wait
\* spawned the process directly (not through "open -a").
C5_HandleIffDirectSpawn ==
    result # None
    => ((result[1].process # None) <=> (child # None /\ child[1].kind = "direct"))

\* C6: when open_link finds a match among the discovered instances it sends
\* exactly one open_link, to the first instance in discovery order whose
\* reported name is the target, and spawns nothing.
C6_OneSendToFirstMatch ==
    (opc = "done" /\ mlog # None /\ mlog[1].site = "open_link" /\ mlog[1].picked # None)
    => /\ Len(sent) = 1
       /\ \E k \in 1..Len(mlog[1].infos) :
            /\ Reports(mlog[1].infos[k], mlog[1].target)
            /\ \A j \in 1..(k - 1) : ~Reports(mlog[1].infos[j], mlog[1].target)
            /\ sent[1].socket_path = mlog[1].infos[k][1].socket_path
       /\ hist.spawns = 0

C6_Witness ==
    /\ opc = "done"
    /\ Len(sent) = 1
    /\ mlog # None
    /\ mlog[1].site = "open_link"
    /\ Len(mlog[1].infos) = 2
    /\ mlog[1].infos[1] # None
    /\ mlog[1].infos[1][1].has_idb
    /\ ~Reports(mlog[1].infos[1], mlog[1].target)
    /\ mlog[1].picked = mlog[1].infos[2]
    /\ sent[1].socket_path = mlog[1].infos[2][1].socket_path

\* C7: with --no-launch and no matching instance, open_link ends with the
\* not-found failure; launch_and_wait is not called, nothing is spawned and
\* no open_link is sent.
C7_NoLaunchNoSpawn ==
    (opc = "done" /\ d # None /\ d[1].no_launch /\ mlog # None
       /\ mlog[1].site = "open_link" /\ mlog[1].picked = None)
    => /\ d[1].outcome = "Abort"
       /\ d[1].reason = "no instance"
       /\ hist.launches = 0
       /\ hist.spawns = 0
       /\ lpc = "idle"
       /\ child = None
       /\ sent = <<>>

C7_Witness ==
    /\ opc = "done"
    /\ d # None
    /\ d[1].no_launch
    /\ d[1].reason = "no instance"
    /\ mlog # None
    /\ Len(mlog[1].infos) >= 1
    /\ sent = <<>>

\* C8: at every matching site (open_link, find_instance_for_idb, the launch
\* wait) the instance picked reports a loaded workspace whose name equals the
\* requested one up to case, and nothing is picked only when no queried
\* instance does.
C8_CaseInsensitiveMatch ==
    mlog # None
    => /\ mlog[1].picked # None => Reports(mlog[1].picked, mlog[1].target)
       /\ mlog[1].picked = None
            => \A i \in 1..Len(mlog[1].infos) : ~Reports(mlog[1].infos[i], mlog[1].target)

C8_Witness ==
    /\ mlog # None
    /\ mlog[1].site = "wait"
    /\ mlog[1].picked # None
    /\ mlog[1].picked[1].idb_name = NameSample
    /\ mlog[1].target = NameSampleLower

OwnerDead(f, table) ==
    /\ PidOfSock(f) # ValueError
    /\ (PidOfSock(f) \in DOMAIN table => table[PidOfSock(f)] = "dead")

PathsOf(insts) == {insts[i].socket_path : i \in 1..Len(insts)}

\* C10: a discovery run on a fixture nobody else changes removes exactly the
\* endpoint files whose owning process is dead and leaves the others; a
\* further run on the unchanged fixture removes nothing and returns the same
\* instances.
C10_RemovesExactlyDead ==
    \A k \in 1..Len(runs) :
       runs[k].static
       => /\ runs[k].removed =
               {f \in runs[k].before.files : OwnerDead(f, runs[k].before.procs)}
          /\ runs[k].filesAfter = runs[k].before.files \ runs[k].removed
          /\ (k > 1 /\ runs[k - 1].static /\ runs[k].before.env = runs[k - 1].before.env)
               => /\ runs[k].removed = {}
                  /\ PathsOf(runs[k].returned) = PathsOf(runs[k - 1].returned)

\* the exchange is over: _send_command has returned or raised
Exchanged == x # None /\ x.pc \in {"exchanged", "returned"}

\* the exchange gave its caller a response whose status is ok
RespOk == x.raised = "" /\ x.value.kind = "dict" /\ x.value.status = <<"ok">>

\* C11: whatever the transport does, ping and send_open_link return without
\* raising, and their success flag is true exactly when the exchange produced
\* a response with status ok.
C11_PingAndSendNeverRaise ==
    (x # None /\ x.pc = "returned" /\ x.cmd \in {"ping", "open_link"})
    => /\ x.api.raised = ""
       /\ x.api.success \in BOOLEAN
       /\ x.api.success <=> RespOk
       /\ x.cmd = "open_link" => x.api.message # None

C11_Witness ==
    /\ x # None
    /\ x.pc = "returned"
    /\ x.cmd = "ping"
    /\ x.raised = "ConnectionResetError"
    /\ x.api.raised = ""
    /\ ~x.api.success

\* C12: query_instance returns without raising, and it returns an instance
\* only when the exchange produced a get_info response with status ok; on
\* every failure and every other status it returns None.
C12_QueryNeverRaises ==
    (x # None /\ x.pc = "returned" /\ x.cmd = "get_info")
    => /\ x.api.raised = ""
       /\ x.api.instance # None => RespOk
       /\ ~RespOk => x.api.instance = None

C12_Witness ==
    /\ x # None
    /\ x.pc = "returned"
    /\ x.cmd = "get_info"
    /\ x.value.status = <<"error">>
    /\ x.api.raised = ""
    /\ x.api.instance = None

\* C13: in a polling helper the first sleep is initial_poll_interval and each
\* further sleep is min(previous * backoff_multiplier, max_poll_interval); with
\* the default configuration (0.1 s, 1.5, 2.0 s) no sleep exceeds 2.0 s.
C13_BackoffSequence ==
    w # None
    => /\ Len(w.sleeps) >= 1 => w.sleeps[1] = w.config.initial_poll_interval
       /\ \A n \in 2..Len(w.sleeps) :
            w.sleeps[n] * w.config.backoff_den
              = Min(w.sleeps[n - 1] * w.config.backoff_num,
                    w.config.max_poll_interval * w.config.backoff_den)
       /\ w.config = DefaultConfig
            => \A n \in 1..Len(w.sleeps) : w.sleeps[n] <= Seconds(2)

C13_Witness ==
    /\ w # None
    /\ w.config = DefaultConfig
    /\ w.helper = "_wait_for_idb_instance"
    /\ Len(w.sleeps) >= 10
    /\ w.sleeps[8] = 2187
    /\ w.sleeps[10] = Seconds(2)

C15_ClosedOrEmptyIsProtocolError ==
    (Exchanged /\ x.asked /\ x.ending = "close" /\ x.got = Len(x.doc)
       /\ x.value.kind = "none")
    => x.raised = "IPCProtocolError"

\* C16: an exchange whose connect deadline or read deadline elapsed fails
\* with IPCTimeoutError.
C16_DeadlineIsTimeoutError ==
    (Exchanged /\ (x.connectTimedOut \/ x.readTimedOut))
    => x.raised = "IPCTimeoutError"

\* C17: every instance query_instance returns has has_idb true exactly when
\* both idb_name and idb_path are present.
C17_HasIdbIffNameAndPath ==
    (x # None /\ x.pc = "returned" /\ x.api.instance # None)
    => ((x.api.instance[1].has_idb = TRUE)
          <=> (x.api.instance[1].idb_name # None /\ x.api.instance[1].idb_path # None))

\* C18: the instances returned by one discover_instances call have positive
\* pids that are pairwise distinct, whatever endpoint file names exist.
C18_PositiveDistinctPids ==
    \A k \in 1..Len(runs) :
       /\ \A i \in 1..Len(runs[k].returned) : runs[k].returned[i].pid > 0
       /\ \A i, j \in 1..Len(runs[k].returned) :
            i # j => runs[k].returned[i].pid # runs[k].returned[j].pid

\* C19: every LaunchConfig launch_and_wait runs with, the one the open-link
\* command builds from --timeout included, has strictly positive timeouts and
\* poll intervals and a backoff multiplier of at least 1.
C19_ConfigPositive ==
    (l # None /\ lpc # "idle")
    => /\ l.config.socket_timeout > 0
       /\ l.config.idb_loaded_timeout > 0
       /\ l.config.initial_poll_interval > 0
       /\ l.config.max_poll_interval > 0
       /\ l.config.analysis_poll_interval > 0
       /\ l.config.backoff_num >= l.config.backoff_den

\* the owner of an endpoint passed the liveness check when the run started
LiveAtStart(f, table) ==
    /\ PidOfPath(f) # ValueError
    /\ PidOfPath(f) \in DOMAIN table
    /\ table[PidOfPath(f)] = "alive"

\* C20: when another process removes a stale endpoint file between the
\* enumeration and the unlink of a discovery run, the run does not raise and,
\* if no process started or exited meanwhile, returns every live instance.
C20_RacedUnlinkIsHarmless ==
    /\ dpc # "raised"
    /\ \A k \in 1..Len(runs) :
         runs[k].quiet
         => {f \in runs[k].before.files : LiveAtStart(f, runs[k].before.procs)}
              \subseteq PathsOf(runs[k].returned)

C20_Witness ==
    /\ Len(runs) >= 1
    /\ runs[1].before.raced
    /\ runs[1].before.rival # {}
    /\ runs[1].quiet
    /\ runs[1].returned # <<>>

\* the launch has passed its workspace wait with a match
Matched == l.instance # None /\ mlog # None /\ mlog[1].site = "wait" /\ mlog[1].picked = l.instance

\* C21: within one launch_and_wait run nothing is polled before the spawn, no
\* analysis probe is sent before the workspace wait has matched an answering
\* instance, and success is returned only after the spawn, the match and the
\* analysis wait (ended or skipped).
C21_PhasesInOrder ==
    /\ lpc \in {"wait_idb", "matched", "analysis"} => (child # None /\ hist.spawns >= 1)
    /\ (mlog # None /\ mlog[1].site = "wait") => (child # None /\ hist.spawns >= 1)
    /\ (lpc = "matched" \/ lpc = "analysis" \/ (hist # None /\ hist.probes > 0)) => Matched
    /\ (result # None /\ result[1].success)
         => /\ lpc = "done"
            /\ child # None
            /\ Matched
            /\ result[1].instance = l.instance
            /\ \/ l.config.skip_analysis_wait
               \/ hist.last = "ok"
               \/ hist.interrupted = "analysis"

C21_Witness ==
    /\ lpc = "done"
    /\ result # None
    /\ result[1].success
    /\ hist.probes = 2
    /\ child # None
    /\ child[1].state = "loaded"
    /\ result[1].instance[1].pid = ChildPid

\* C22: each probe of the analysis wait decides the next step: status ok ends
\* the launch with success, status error ends it with a failure whose message
\* carries the probe error, status timeout sleeps analysis_poll_interval and
\* stays in the analysis wait.
C22_ProbeDecidesNextStep ==
    [][(hist # None /\ hist'.probes = hist.probes + 1)
       => /\ hist'.last = "ok"
            => (lpc' = "done" /\ result'[1].success /\ result'[1].instance = l.instance
                /\ now' = now)
          /\ hist'.last = "error"
            => (lpc' = "done" /\ ~result'[1].success
                /\ result'[1].error_message = AnalysisErrorMsg("failed") /\ now' = now)
          /\ hist'.last = "timeout"
            => (lpc' = "analysis" /\ result' = None
                /\ now' = now + l.config.analysis_poll_interval)]_vars

C22_Witness ==
    /\ lpc = "done"
    /\ hist.probes = 2
    /\ hist.last = "error"
    /\ now - l.start >= l.config.analysis_poll_interval
    /\ ~result[1].success
    /\ result[1].error_message = AnalysisErrorMsg("failed")

\* C23: with skip_analysis_wait set no analysis probe is sent, and the launch
\* is a success with the matched instance once the workspace wait has matched.
C23_SkipSendsNoProbe ==
    (l # None /\ lpc # "idle" /\ l.config.skip_analysis_wait)
    => /\ hist.probes = 0
       /\ lpc # "analysis"
       /\ (lpc = "done" /\ l.instance # None)
            => (result[1].success /\ result[1].instance = l.instance)

C23_Witness ==
    /\ opc = "done"
    /\ lpc = "done"
    /\ l.config.skip_analysis_wait
    /\ result # None
    /\ result[1].success
    /\ hist.probes = 0
    /\ Len(sent) = 1

\* C24: an interrupt delivered while launch_and_wait polls for startup does
\* not cancel the run: the run is still waiting or has returned a result,
\* and that result is not a success.
C24_StartupInterruptDoesNotCancel ==
    (hist # None /\ hist.interrupted = "wait_idb")
    => /\ lpc \in {"wait_idb", "matched", "analysis", "done"}
       /\ result # None => ~result[1].success

\* the messages of the failures that come before or at the spawn
EarlyFailures ==
    {<<"IDB file not found: ">> \o NameSampleLower,
     <<"IDB path is not a file: ">> \o NameSampleLower,
     NoIdaMsg,
     <<"Failed to start IDA: ", "OSError">>}

\* C25: a launch that ends without a spawned process (missing data file, data
\* path that is not a file, no executable, OS error of the spawn) returns a
\* failure with the matching message and has done no polling, no probe and no
\* sleep; a process is spawned only for a data file that exists.
C25_SpawnFailureIsTerminal ==
    /\ child # None => (l.idb_path.kind = "file" /\ hist.spawns = 1)
    /\ (lpc = "done" /\ child = None)
         => /\ ~result[1].success
            /\ result[1].instance = None
            /\ result[1].error_message \in EarlyFailures
            /\ l.idb_path.kind = "missing" => Head(result[1].error_message) = "IDB file not found: "
            /\ l.idb_path.kind = "dir" => Head(result[1].error_message) = "IDB path is not a file: "
            /\ l.idb_path.kind = "file"
                 => result[1].error_message \in {NoIdaMsg, <<"Failed to start IDA: ", "OSError">>}
            /\ hist.spawns = 0
            /\ hist.probes = 0
            /\ now = 0
            /\ mlog = None \/ mlog[1].site # "wait"
            /\ procs[ChildPid] = "dead"
    /\ (result # None /\ result[1].error_message \in EarlyFailures) => child = None

C25_Witness ==
    /\ opc = "done"
    /\ lpc = "done"
    /\ child = None
    /\ result # None
    /\ result[1].error_message = <<"Failed to start IDA: ", "OSError">>
    /\ d # None
    /\ d[1].reason = "launch failed"
    /\ sent = <<>>

\* the query loop of open_link picked an instance
Picked == mlog # None /\ mlog[1].site = "open_link" /\ mlog[1].picked # None

\* C26: open_link launches (and so spawns) only when no running instance
\* matched, --no-launch is not set and find_idb_file gave a file; with a match
\* the command goes to the matched instance and nothing is launched; without
\* a file open_link aborts with nothing launched, spawned or sent.
C26_SpawnOnlyWhenNeeded ==
    d # None
    => /\ (hist.launches > 0 \/ hist.spawns > 0)
            => /\ ~d[1].no_launch
               /\ l.idb_path.kind = "file"
               /\ ~Picked
               /\ opc = "launching" => d[1].matching_instance = None
       /\ Picked
            => /\ hist.launches = 0
               /\ hist.spawns = 0
               /\ child = None
               /\ d[1].matching_instance = mlog[1].picked
               /\ opc = "done"
                    => (Len(sent) = 1
                        /\ sent[1].socket_path = mlog[1].picked[1].socket_path)
       /\ d[1].reason = "idb not found"
            => /\ d[1].outcome = "Abort"
               /\ ~d[1].no_launch
               /\ ~Picked
               /\ hist.launches = 0
               /\ hist.spawns = 0
               /\ child = None
               /\ sent = <<>>

C26_Witness ==
    /\ opc = "done"
    /\ d # None
    /\ d[1].reason = "idb not found"
    /\ mlog # None
    /\ Len(mlog[1].infos) = 2
    /\ mlog[1].infos[1] # None
    /\ mlog[1].infos[1][1].has_idb
    /\ sent = <<>>

\* C27: after a launch open_link sends the command exactly when the launch
\* result is a success with an instance, and then to that instance; after a
\* failed launch nothing is sent and the report carries the launch's error.
C27_SendOnlyAfterSuccessfulLaunch ==
    (opc = "done" /\ d # None /\ lpc = "done" /\ result # None)
    => /\ result[1].success
            => /\ Len(sent) = 1
               /\ sent[1].socket_path = result[1].instance[1].socket_path
               /\ sent[1].uri = d[1].uri
               /\ d[1].matching_instance = result[1].instance
               /\ d[1].reason # "launch failed"
       /\ ~result[1].success
            => /\ sent = <<>>
               /\ d[1].outcome = "Abort"
               /\ d[1].reason = "launch failed"
               /\ d[1].report = <<"Failed to launch IDA: ">> \o result[1].error_message

C27_Witness ==
    /\ opc = "done"
    /\ d # None
    /\ lpc = "done"
    /\ result # None
    /\ ~result[1].success
    /\ hist.last = "error"
    /\ d[1].report = <<"Failed to launch IDA: ", "Analysis check error: ", "failed">>
    /\ sent = <<>>

\* the time a polling helper had used when it last tested its loop condition
\* and went on
UsedAtLastPoll == now - w.start - w.sleeps[Len(w.sleeps)]

\* C28: for a launch made by open_link with --timeout T the socket_timeout and
\* idb_loaded_timeout of the configuration are 25% and 75% of T and sum to T,
\* and the startup wait polls while less than that sum is used and gives up
\* once it is used.
C28_BudgetsSplitTimeout ==
    (w # None /\ w.overall # None)
    => LET T == w.overall[1]
           budget == w.config.socket_timeout + w.config.idb_loaded_timeout
       IN  /\ w.config.socket_timeout * 4 = T
           /\ w.config.idb_loaded_timeout * 4 = T * 3
           /\ budget = T
           /\ w.sleeps # <<>> => UsedAtLastPoll < budget
           /\ (w.pc = "raised" /\ w.outcome[1] = "IDA startup timeout after ")
                => now - w.start >= budget

\* root k of the search paths exists and rglob yields a regular file in it
HasFile(search_paths, k, idb_filename) ==
    /\ search_paths[k].exists
    /\ \E i \in 1..Len(search_paths[k].entries) :
         /\ GlobMatch(idb_filename, search_paths[k].entries[i].name)
         /\ search_paths[k].entries[i].is_file

\* C29: find_idb_file returns a regular file that rglob yields in the
\* earliest configured root that exists and holds such a file (the first one
\* rglob yields there), and returns None exactly when no configured root does.
C29_FirstRootWithFileWins ==
    (fcall # None /\ fcall.pc = "returned")
    => /\ fcall.value # None
            => LET k == fcall.value[1].root
                   es == fcall.search_paths[k].entries
               IN  /\ k \in 1..Len(fcall.search_paths)
                   /\ HasFile(fcall.search_paths, k, fcall.idb_filename)
                   /\ \A j \in 1..(k - 1) :
                        ~HasFile(fcall.search_paths, j, fcall.idb_filename)
                   /\ fcall.value[1].kind = "file"
                   /\ \E i \in 1..Len(es) :
                        /\ es[i].name = fcall.value[1].name
                        /\ es[i].is_file
                        /\ GlobMatch(fcall.idb_filename, es[i].name)
                        /\ \A h \in 1..(i - 1) :
                             ~(es[h].is_file /\ GlobMatch(fcall.idb_filename, es[h].name))
       /\ fcall.value = None
            <=> \A k \in 1..Len(fcall.search_paths) :
                   ~HasFile(fcall.search_paths, k, fcall.idb_filename)

C29_Witness ==
    /\ fcall # None
    /\ fcall.pc = "returned"
    /\ fcall.idb_filename = NameB
    /\ Len(fcall.search_paths) = 2
    /\ fcall.search_paths[1] = Root(TRUE, <<Entry(NameB, FALSE)>>)
    /\ fcall.search_paths[2] = Root(TRUE, <<Entry(NameB, FALSE), Entry(NameB, TRUE)>>)
    /\ fcall.value # None
    /\ fcall.value[1].root = 2

\* C30: a path returned by find_idb_file has a file name equal to the
\* requested identifier, for every identifier open_link can pass.
C30_ReturnedNameIsIdentifier ==
    (fcall # None /\ fcall.pc = "returned" /\ fcall.value # None)
    => fcall.value[1].name = fcall.idb_filename

\* C31: on the POSIX path, a candidate whose liveness check failed with a
\* permission error while a discovery run examined it is not among the
\* instances that run returns (the Windows path never calls the liveness check).
C31_DeniedIsNotReturned ==
    \A k \in 1..Len(runs) :
       runs[k].before.denied \cap PathsOf(runs[k].returned) = {}

\* a finished run that was denied on a candidate whose owner is still running
C31_Witness ==
    /\ dpc = "done"
    /\ \E f \in runs[Len(runs)].before.denied : Running(PidOfSock(f))

\* C32: whenever a discovery run unlinks an endpoint, while instances exit and
\* start in between its steps, the process that owns the endpoint's name is
\* not running at the moment of the unlink.
C32_NeverUnlinksLiveEndpoint ==
    [][(dpc = "unlink" /\ cur \notin removed /\ cur \in removed')
         => ~Running(PidOfSock(cur))]_vars

\* C33: a launch_and_wait call never ends by an exception leaving it, and
\* every failure it returns is a LaunchResult with success false that carries
\* an error message.
C33_EveryFailureIsAResult ==
    /\ lpc # "raised"
    /\ (lpc = "done" /\ result # None /\ ~result[1].success)
         => result[1].error_message # None

\* C34: in the analysis wait a probe result with status cancelled ends the
\* wait: after such a probe launch_and_wait has returned, and only a probe
\* with status timeout leaves the loop polling.
C34_CancelledEndsTheWait ==
    [][(lpc = "analysis" /\ hist'.probes = hist.probes + 1 /\ lpc' = "analysis")
         => hist'.last = "timeout"]_vars

WholeResponse(doc, ending) ==
    LET r == Loads(doc)
    IN  IF doc # <<>> /\ r.raised # "JSONDecodeError" THEN r
        ELSE IF platform = "win32" THEN Outcome("IPCProtocolError", NoValue)
        ELSE IF ending = "reset" THEN Outcome("ConnectionResetError", NoValue)
        ELSE AfterLoop(doc)

\* C36: the outcome of an exchange whose request was sent depends only on the
\* bytes the peer sends and how it ends, not on how the bytes are split into
\* receive chunks: it is the outcome of receiving them as one chunk.
C36_ChunkingDoesNotMatter ==
    (x # None /\ x.asked /\ x.pc \in {"exchanged", "returned"})
    => Outcome(x.raised, x.value) = WholeResponse(x.doc, x.ending)

\* C37: every exchange terminates, whatever the peer sends and however it
\* ends: _send_command returns or raises.
C37_ExchangeTerminates == <>(x.pc \in {"exchanged", "returned"})

\* the data-model constraints of LaunchConfig: positive durations, a backoff
\* multiplier of at least 1
MeetsConstraints(config) ==
    /\ config.socket_timeout > 0
    /\ config.idb_loaded_timeout > 0
    /\ config.initial_poll_interval > 0
    /\ config.max_poll_interval > 0
    /\ config.analysis_poll_interval > 0
    /\ config.backoff_num >= config.backoff_den

\* C38: in a polling helper run with a configuration that meets the
\* constraints, every sleep, the first one included, is at most
\* max_poll_interval.
C38_SleepsWithinMax ==
    (w # None /\ MeetsConstraints(w.config))
    => \A n \in 1..Len(w.sleeps) : w.sleeps[n] <= w.config.max_poll_interval

\* C39: after any sequence of registry commands run one at a time,
\* ida.default is unset or is a key of ida.instances.
C39_DefaultIsRegistered ==
    reg # None => (reg.default = None \/ reg.default \in DOMAIN reg.instances)

\* the default instance was removed while others remain, and the default
\* now names one of them
C39_Witness ==
    /\ reg # None
    /\ reg.cmd = "remove"
    /\ reg.outcome = "ok"
    /\ reg.was # None
    /\ reg.was \notin DOMAIN reg.instances
    /\ reg.default # None
    /\ reg.default # reg.was

====
